---- MODULE Spec2Model ----
(***************************************************************************)
(* DrawingCanvas (src/src/components/BrushControls.tsx): the Surface       *)
(* Buffer (modelled as one row of W pixels), the History Log with its      *)
(* cursor, the asynchronous snapshot decodes, the initial-snapshot timer   *)
(* and the stream bootstrap.                                               *)
(* Every handler runs to completion on the single UI thread, so one action *)
(* is one handler (or one asynchronous continuation).                      *)
(***************************************************************************)
EXTENDS Integers, Sequences, FiniteSets, Bags, TLC

\* ---------------------------------------------------------------- bounds
W == 1                  \* buffer width at mount (the drawing surface is one row)
MaxHistoryBound == 3    \* largest maxHistorySize prop explored
MaxOps == 2             \* user operations (edits and control changes) per behaviour
GridW == 2              \* buffer width in the flood-fill specification
GridH == 2              \* buffer height in the flood-fill specification
MaxTicks == 1           \* marker-pixel writes per behaviour
MaxRenders == 1         \* changes of the fps prop per behaviour
MaxRequests == 3        \* direct calls of createSilentAudioTrack() per behaviour

\* ----------------------------------------------------------------- state
VARIABLES
    enableStreaming,      \* prop
    maxHistorySize,       \* prop
    width,                \* prop: buffer width
    height,               \* prop: buffer height
    canvas,               \* Surface Buffer bitmap
    preview,              \* Preview Overlay: set of stroked pixels
    history,              \* historyRef.current
    historyIndex,         \* historyIndexRef.current (0-based cursor, -1 = none)
    savedCanvasState,     \* savedCanvasStateRef.current
    isRestoring,          \* isRestoringRef.current
    isDrawing,            \* isDrawingRef.current
    canUndo,              \* canUndo state
    selectedTool,         \* selectedTool state
    selectedColor,        \* selectedColor state
    startPos,             \* startPos state (anchor of a shape gesture)
    path,                 \* points of the 2d context's current path
    loads,                \* bag of images whose onload has not run yet
    snapshotTimers,       \* pending setTimeout(saveToHistory, 100)
    boot,                 \* createStream runs suspended in each await
    streamCreated,        \* streamCreatedRef.current
    captures,             \* canvas.captureStream calls so far
    readyCount,           \* onStreamReady calls so far
    fillRun,              \* locals of a floodFill call followed step by step
    mounted,              \* the component is mounted (canvasRef.current set)
    hidden,               \* document.hidden
    fps,                  \* prop: target frame rate
    enableBackgroundStreaming, \* prop
    hook,                 \* useBackgroundStreaming's arguments at the latest
                          \* render, closed over by its callbacks
    intervalRef,          \* intervalRef.current (0 = null)
    isStreamingRef,       \* isStreamingRef.current
    intervals,            \* handles of the intervals setInterval has running
    markerWrites,         \* history variable: writes of the marker pixel so far
    streamRef,            \* streamRef.current (0 = null, else a stream id)
    streams,              \* the streams captureStream has returned
    notified,             \* the onStreamReady calls, in order
    runs,                 \* createStream calls followed one by one
    fadingEnabled,        \* fadingEnabled state and fadingEnabledRef.current
    fadeAnimation,        \* fadeAnimationRef.current (0 = null)
    rafs,                 \* handles of the pending requestAnimationFrame calls
    audioTrackManager,    \* the AudioTrackManager singleton's fields, each 0
                          \* (null) or the number of the graph it belongs to
    graphs,               \* history variable: the audio graphs built so far,
                          \* each with the calls made on its parts
    clones,               \* history variable: for each track handed out, the
                          \* graph whose source track it is a clone of
    pointerDown,          \* a pointer is down on the canvas (one pointer is
                          \* followed)
    unendedStarts,        \* history variable: onDrawingStart calls so far
                          \* minus onDrawingEnd calls so far
    ops,                  \* user operations so far (bounds the behaviour)
    last,                 \* history variable: what the last step was
    scenario              \* history variable: progress of a run made of brush
                          \* strokes only, then one undo, and the buffer at
                          \* the pointer-down of its latest stroke

vars == <<enableStreaming, maxHistorySize, width, height, fillRun, canvas,
          preview, history,
          historyIndex, savedCanvasState, isRestoring, isDrawing, canUndo,
          selectedTool, selectedColor, startPos, path, loads, snapshotTimers,
          boot, streamCreated, captures, readyCount, ops, last,
          scenario, mounted, hidden, fps, enableBackgroundStreaming, hook,
          intervalRef, isStreamingRef, intervals, markerWrites, streamRef, streams,
          notified, runs, fadingEnabled, fadeAnimation, rafs,
          audioTrackManager, graphs, clones, pointerDown, unendedStarts>>

props == <<enableStreaming, maxHistorySize, width, height>>
streamVars == <<boot, streamCreated, captures, readyCount>>
hostVars == <<mounted, hidden, fps, enableBackgroundStreaming>>
pacingVars == <<hook, intervalRef, isStreamingRef, intervals, markerWrites>>
runVars == <<streamRef, streams, notified, runs>>
liveVars == <<hostVars, pacingVars, runVars>>
fadeVars == <<fadingEnabled, fadeAnimation, rafs>>
audioVars == <<audioTrackManager, graphs, clones>>
gestureVars == <<pointerDown, unendedStarts>>

\* ------------------------------------------------------- pixels, colours
Pixels == 1..(width * height)
PX(p) == (p - 1) % width
PY(p) == (p - 1) \div width

Transparent == "T"      \* rgba(0,0,0,0): the bitmap after a reset or clearRect
White == "W"
Palette == {"K", "R"}   \* selectable stroke colours (#000000 and one other)
initialColor == "K"
Tools == {"brush", "line", "circle", "fill"}
NULL == [width |-> 0, height |-> 0, data |-> <<>>]   \* a null data URL

\* RGB channels of a pixel value; a transparent pixel reads back (0,0,0).
RgbOf(v) == IF v = Transparent THEN "000000"
            ELSE IF v = "K" THEN "000000"
            ELSE IF v = White THEN "ffffff"
            ELSE IF v = "R" THEN "ff0000" ELSE v

Blank(w, h, v) == [p \in 1..(w * h) |-> v]   \* a w x h bitmap of one value
Uniform(v) == Blank(width, height, v)

\* canvas.toDataURL(): the serialized bitmap with its dimensions.
ToDataURL(cv) ==
    [width |-> width, height |-> height, data |-> [p \in Pixels |-> cv[p]]]

\* ctx.clearRect(0,0,w,h); ctx.drawImage(img,0,0): the image's pixels land
\* at the same coordinates, everything it does not cover stays transparent.
DrawImage(img) ==
    [p \in Pixels |->
        IF PX(p) < img.width /\ PY(p) < img.height
        THEN img.data[PY(p) * img.width + PX(p) + 1]
        ELSE Transparent]

\* Pixels covered by a stroked segment from a to b (lattice points on it).
LinePixels(a, b) ==
    {p \in Pixels :
        /\ (PX(p) - PX(a)) * (PY(b) - PY(a)) = (PY(p) - PY(a)) * (PX(b) - PX(a))
        /\ (PX(p) - PX(a)) * (PX(p) - PX(b)) <= 0
        /\ (PY(p) - PY(a)) * (PY(p) - PY(b)) <= 0}

\* Pixels on the circle centred at c through e (radius = distance c..e).
CirclePixels(c, e) ==
    {p \in Pixels :
        (PX(p) - PX(c)) * (PX(p) - PX(c)) + (PY(p) - PY(c)) * (PY(p) - PY(c))
      = (PX(e) - PX(c)) * (PX(e) - PX(c)) + (PY(e) - PY(c)) * (PY(e) - PY(c))}

\* ctx.stroke() of a set of covered pixels in the stroke colour.
Stroke(cv, cover, color) == [p \in Pixels |-> IF p \in cover THEN color ELSE cv[p]]

NoPath == {}

\* A pixel other than white after the fade wash (white at 5% opacity,
\* source-over) has been composited on it: some lighter colour.
Faded == "F"
Wash(cv) == [p \in Pixels |-> IF cv[p] = White THEN White ELSE Faded]

\* The marker pixel (bottom-right corner) after fillRect at 1% opacity in
\* red or green: some colour that is none of the drawn ones.
Tinted == "M"
MarkerPixel == width * height
FillMarker(cv) == [cv EXCEPT ![MarkerPixel] = Tinted]

\* A handle setInterval / requestAnimationFrame has not handed out among
\* the ones in use.
Fresh(used) == CHOOSE n \in 1..(Cardinality(used) + 1) : n \notin used

\* useBackgroundStreaming's arguments as a render passes them: canvasRef and
\* streamRef are read during the render (the first render sees both null).
FPS == 30
HookArgs == [canvas |-> mounted, stream |-> streamRef, fps |-> fps]
FirstRender == [canvas |-> FALSE, stream |-> 0, fps |-> FPS]
Enabled == enableStreaming /\ enableBackgroundStreaming

\* A createStream call suspended in waitForCanvasStreamStability.
NewRun == [pc |-> "WaitStable", stream |-> 0, trace |-> <<>>]
\* No floodFill call is being followed step by step.
\* ------------------------------------------------- Silent-Audio Provider
\* The singleton before any track request and after a teardown.
Uninitialized == [audioContext |-> 0, oscillator |-> 0, destination |-> 0,
                  silentTrack |-> 0]
\* A graph as built: nothing stopped, disconnected or closed yet.
NewGraph == [oscStops |-> 0, oscDisconnects |-> 0, destDisconnects |-> 0,
             closes |-> 0, trackStops |-> 0]
\* One more call of the method f on a part of graph g (none on a null part).
Bump(gs, g, f) == IF g = 0 THEN gs ELSE [gs EXCEPT ![g][f] = @ + 1]
\* readyState === "live" of graph g's source track: not stopped, and its
\* context not closed.
Live(gs, g) == gs[g].trackStops = 0 /\ gs[g].closes = 0
\* audioContext.state !== "closed".
NotClosed(gs, g) == gs[g].closes = 0

\* cleanup() that stops, disconnects and closes the parts but keeps the
\* references to them.
Cleanup_KeepsRefs(m, gs) ==
    LET g1 == Bump(Bump(gs, m.oscillator, "oscStops"), m.oscillator, "oscDisconnects")
        g2 == Bump(g1, m.destination, "destDisconnects")
        g3 == Bump(g2, m.audioContext, "closes")
        g4 == Bump(g3, m.silentTrack, "trackStops")
    IN [m |-> m, graphs |-> g4]

\* cleanup(): stops and disconnects the oscillator, disconnects the
\* destination, closes the context unless it is closed, stops the source
\* track; each part only when it is set, and each is then set to null.
Cleanup(m, gs) ==
    LET g1 == Bump(Bump(gs, m.oscillator, "oscStops"), m.oscillator, "oscDisconnects")
        g2 == Bump(g1, m.destination, "destDisconnects")
        closing == m.audioContext # 0 /\ NotClosed(g2, m.audioContext)
        g3 == IF closing THEN Bump(g2, m.audioContext, "closes") ELSE g2
        g4 == Bump(g3, m.silentTrack, "trackStops")
    IN [m |-> [audioContext |-> IF closing THEN 0 ELSE m.audioContext,
               oscillator |-> 0, destination |-> 0, silentTrack |-> 0],
        graphs |-> g4]

\* reset(): cleanup(), then the source track reference is set to null.
Reset(m, gs) ==
    LET c == Cleanup(m, gs)
    IN [m |-> [c.m EXCEPT !.silentTrack = 0], graphs |-> c.graphs]

\* createSilentAudioTrack(): cleanup(), then a new context, oscillator and
\* destination; the destination's track becomes the source track and a
\* clone of it is returned.
CreateSilentAudioTrack(m, gs) ==
    LET c == Cleanup(m, gs)
        g == Len(c.graphs) + 1
    IN [m |-> [audioContext |-> g, oscillator |-> g, destination |-> g,
               silentTrack |-> g],
        graphs |-> Append(c.graphs, NewGraph),
        track |-> g]

\* getSilentAudioTrack() that builds a graph for every request.
GetSilentAudioTrack_AlwaysBuilds(m, gs) == CreateSilentAudioTrack(m, gs)

\* getSilentAudioTrack(): a clone of the source track while it is live,
\* else createSilentAudioTrack().
GetSilentAudioTrack(m, gs) ==
    IF m.silentTrack # 0 /\ Live(gs, m.silentTrack)
    THEN [m |-> m, graphs |-> gs, track |-> m.silentTrack]
    ELSE CreateSilentAudioTrack(m, gs)

\* The exported createSilentAudioTrack() as an action on the singleton.
RequestTrack ==
    LET r == GetSilentAudioTrack(audioTrackManager, graphs)
    IN /\ audioTrackManager' = r.m
       /\ graphs' = r.graphs
       /\ clones' = Append(clones, r.track)

NoFill == [pc |-> "idle"]

\* What the last step was: a snapshot request (with what saveToHistory found:
\* the guard set, entries ahead of the cursor, a full log), an undo call
\* (with whether the cursor allowed it), or anything else.
SaveKind == IF ~mounted \/ isRestoring THEN "suppressed"
            ELSE IF historyIndex + 1 < Len(history) THEN "truncate"
            ELSE IF historyIndex + 2 > maxHistorySize THEN "evict"
            ELSE "append"
Snapshot(name) == [op |-> name, kind |-> SaveKind]
UndoCall == [op |-> "undo", kind |-> IF historyIndex <= 0 THEN "noop" ELSE "step"]
Other == [op |-> "other", kind |-> "none"]
\* A handler call that requests no snapshot: pointer-down, pointer-move, a
\* fill that returned at its colour test.
Call(name) == [op |-> name, kind |-> "none"]
SnapshotOps == {"stopDrawing", "fill", "clear", "timer"}
EditOps == {"stopDrawing", "fill", "clear"}

\* Progress of the strokes-then-undo run: fresh (nothing yet), drawing,
\* idle (at least one stroke completed), undoing (decode pending), undone,
\* off (something else happened).
Off == [phase |-> "off", base |-> Uniform(Transparent)]
Track(event) ==
    LET ph == scenario.phase
    IN CASE event = "background" -> scenario
         [] event = "down" /\ ph \in {"fresh", "idle"} /\ ~isDrawing
                           /\ selectedTool = "brush" ->
                [phase |-> "drawing", base |-> canvas]
         [] event \in {"down", "move"} /\ ph = "drawing" -> scenario
         [] event = "up" /\ ph = "drawing" -> [scenario EXCEPT !.phase = "idle"]
         [] event = "undo" /\ ph = "idle" ->
                [scenario EXCEPT !.phase = IF historyIndex <= 0 THEN "undone"
                                           ELSE "undoing"]
         [] event = "decoded" /\ ph = "undoing" -> [scenario EXCEPT !.phase = "undone"]
         [] OTHER -> Off

\* ------------------------------------------------------------ History Log
\* saveToHistory() without the eviction of the oldest entry.
SaveToHistory_NoEvict(cv, saved) ==
    IF ~mounted \/ isRestoring
    THEN [history |-> history, historyIndex |-> historyIndex,
          savedCanvasState |-> saved, canUndo |-> canUndo]
    ELSE LET dataURL == ToDataURL(cv)
             pushed == Append(SubSeq(history, 1, historyIndex + 1), dataURL)
         IN [history |-> pushed, historyIndex |-> Len(pushed) - 1,
             savedCanvasState |-> dataURL, canUndo |-> Len(pushed) - 1 > 0]

\* saveToHistory() without the truncation at the cursor.
SaveToHistory_NoTruncate(cv, saved) ==
    IF ~mounted \/ isRestoring
    THEN [history |-> history, historyIndex |-> historyIndex,
          savedCanvasState |-> saved, canUndo |-> canUndo]
    ELSE LET dataURL == ToDataURL(cv)
             pushed == Append(history, dataURL)
             kept == IF Len(pushed) > maxHistorySize THEN Tail(pushed) ELSE pushed
         IN [history |-> kept, historyIndex |-> Len(kept) - 1,
             savedCanvasState |-> dataURL, canUndo |-> Len(kept) - 1 > 0]

\* saveToHistory() whose eviction drops the oldest entry but leaves the
\* cursor where the push put it.
SaveToHistory_StaleCursor(cv, saved) ==
    IF ~mounted \/ isRestoring
    THEN [history |-> history, historyIndex |-> historyIndex,
          savedCanvasState |-> saved, canUndo |-> canUndo]
    ELSE LET dataURL == ToDataURL(cv)
             pushed == Append(SubSeq(history, 1, historyIndex + 1), dataURL)
             kept == IF Len(pushed) > maxHistorySize THEN Tail(pushed) ELSE pushed
         IN [history |-> kept, historyIndex |-> Len(pushed) - 1,
             savedCanvasState |-> dataURL, canUndo |-> Len(pushed) - 1 > 0]

\* saveToHistory(), called with the canvas as the handler left it and the
\* savedCanvasStateRef as the handler left it; it returns at once when the
\* canvas is gone or a restore is pending.
SaveToHistory(cv, saved) ==
    IF ~mounted \/ isRestoring
    THEN [history |-> history, historyIndex |-> historyIndex,
          savedCanvasState |-> saved, canUndo |-> canUndo]
    ELSE LET dataURL == ToDataURL(cv)
             pushed == Append(SubSeq(history, 1, historyIndex + 1), dataURL)
             kept == IF Len(pushed) > maxHistorySize THEN Tail(pushed) ELSE pushed
         IN [history |-> kept, historyIndex |-> Len(kept) - 1,
             savedCanvasState |-> dataURL, canUndo |-> Len(kept) - 1 > 0]

ApplySave(s) ==
    /\ history' = s.history
    /\ historyIndex' = s.historyIndex
    /\ savedCanvasState' = s.savedCanvasState
    /\ canUndo' = s.canUndo

\* ------------------------------------------------------------- flood fill
\* The worklist loop of floodFill: pop, skip out-of-bounds and non-matching
\* pixels, recolour, push the four neighbours.
RECURSIVE FillLoop(_, _, _, _, _, _)
FillLoop(data, w, h, stack, target, fill) ==
    IF stack = <<>> THEN data
    ELSE LET top == stack[Len(stack)]
             rest == SubSeq(stack, 1, Len(stack) - 1)
             x == top[1]
             y == top[2]
             p == y * w + x + 1
         IN IF x < 0 \/ x >= w \/ y < 0 \/ y >= h
            THEN FillLoop(data, w, h, rest, target, fill)
            ELSE IF RgbOf(data[p]) # target
            THEN FillLoop(data, w, h, rest, target, fill)
            ELSE FillLoop([data EXCEPT ![p] = fill], w, h,
                          rest \o << <<x + 1, y>>, <<x - 1, y>>,
                                     <<x, y + 1>>, <<x, y - 1>> >>,
                          target, fill)

\* floodFill(startX, startY, fillColor) on a w x h buffer, up to
\* putImageData: ran = FALSE is the early return taken when the start pixel
\* already has the fill RGB.
FloodFill(cv, w, h, startX, startY, fillColor) ==
    LET startIndex == startY * w + startX
        target == IF startIndex \in 0..(w * h - 1)
                  THEN RgbOf(cv[startIndex + 1]) ELSE "undefined"
    IN IF target = RgbOf(fillColor)
       THEN [ran |-> FALSE, data |-> cv]
       ELSE [ran |-> TRUE,
             data |-> FillLoop(cv, w, h, << <<startX, startY>> >>, target,
                              fillColor)]

\* ------------------------------------------------------- stream bootstrap
\* createStream() up to its first await: returns at once when streaming is
\* disabled or the stream was already created, else suspends in WaitStable.
CreateStream(b) ==
    IF ~enableStreaming \/ streamCreated THEN b
    ELSE [b EXCEPT !.waitStable = @ + 1]

\* ---------------------------------------------------------- canvas setup
\* setupCanvas(): assigning canvas.width resets the bitmap, the context and
\* its path; then restore the saved state or paint white; then, while the
\* stream has not been created, bootstrap and schedule the initial snapshot.
SetupCanvas ==
    /\ preview' = {}
    /\ path' = NoPath
    /\ IF savedCanvasState # NULL
       THEN /\ canvas' = Blank(width', height', Transparent)
            /\ isRestoring' = TRUE
            /\ loads' = loads (+) SetToBag({[kind |-> "restore", src |-> savedCanvasState]})
       ELSE /\ canvas' = Blank(width', height', White)
            /\ UNCHANGED <<isRestoring, loads>>
    /\ IF ~streamCreated /\ enableStreaming
       THEN /\ boot' = CreateStream(boot)
            /\ snapshotTimers' = IF savedCanvasState = NULL
                                 THEN snapshotTimers + 1 ELSE snapshotTimers
       ELSE UNCHANGED <<boot, snapshotTimers>>

\* State after the first render and its mount effect (setupCanvas on the
\* freshly constructed refs), with the maxHistorySize prop drawn from sizes.
Mount(sizes) ==
    /\ enableStreaming \in BOOLEAN
    /\ maxHistorySize \in sizes
    /\ width = W
    /\ height = 1
    /\ fillRun = NoFill
    /\ mounted = TRUE
    /\ hidden = FALSE
    /\ fps = FPS
    /\ enableBackgroundStreaming = TRUE
    /\ hook = FirstRender
    /\ intervalRef = 0
    /\ isStreamingRef = FALSE
    /\ intervals = {}
    /\ markerWrites = 0
    /\ streamRef = 0
    /\ streams = <<>>
    /\ notified = <<>>
    /\ runs = IF enableStreaming THEN <<NewRun>> ELSE <<>>
    /\ fadingEnabled = FALSE
    /\ fadeAnimation = 0
    /\ rafs = {}
    /\ audioTrackManager = Uninitialized
    /\ graphs = <<>>
    /\ clones = <<>>
    /\ pointerDown = FALSE
    /\ unendedStarts = 0
    /\ canvas = Uniform(White)
    /\ preview = {}
    /\ history = <<>>
    /\ historyIndex = -1
    /\ savedCanvasState = NULL
    /\ isRestoring = FALSE
    /\ isDrawing = FALSE
    /\ canUndo = FALSE
    /\ selectedTool = "brush"
    /\ selectedColor = initialColor
    /\ startPos = 0
    /\ path = NoPath
    /\ loads = EmptyBag
    /\ snapshotTimers = IF enableStreaming THEN 1 ELSE 0
    /\ boot = [waitStable |-> IF enableStreaming THEN 1 ELSE 0, validate |-> 0]
    /\ streamCreated = FALSE
    /\ captures = 0
    /\ readyCount = 0
    /\ ops = 0
    /\ last = Other
    /\ scenario = [phase |-> "fresh", base |-> Uniform(White)]

Init == Mount(1..MaxHistoryBound)

\* ------------------------------------------------------- Fade Decay Driver
\* startFadeAnimation() without its test of fadeAnimationRef.
StartFadeAnimation_NoGuard ==
    IF ~fadingEnabled \/ ~mounted
    THEN UNCHANGED <<fadeAnimation, rafs>>
    ELSE /\ fadeAnimation' = Fresh(rafs \cup {fadeAnimation})
         /\ rafs' = rafs \cup {fadeAnimation'}

\* startFadeAnimation(): returns when fading is off, a recurrence is already
\* scheduled or the canvas is gone; else schedules fadeFrame.
StartFadeAnimation ==
    IF ~fadingEnabled \/ fadeAnimation # 0 \/ ~mounted
    THEN UNCHANGED <<fadeAnimation, rafs>>
    ELSE /\ fadeAnimation' = Fresh(rafs \cup {fadeAnimation})
         /\ rafs' = rafs \cup {fadeAnimation'}

\* stopFadeAnimation() that clears fadeAnimationRef without cancelling the
\* animation frame.
StopFadeAnimation_KeepsCallback ==
    /\ fadeAnimation' = 0
    /\ UNCHANGED rafs

\* stopFadeAnimation(): cancels the scheduled recurrence, if any.
StopFadeAnimation ==
    IF fadeAnimation # 0
    THEN /\ rafs' = rafs \ {fadeAnimation}
         /\ fadeAnimation' = 0
    ELSE UNCHANGED <<fadeAnimation, rafs>>

\* ------------------------------------------------------------- operations
\* setBrushSize(v): setupCanvas depends on brushSize, so the effect re-runs.
SetBrushSize ==
    /\ ops < MaxOps
    /\ ops' = ops + 1
    /\ UNCHANGED <<props, audioVars, gestureVars, liveVars, fadeVars>>
    /\ SetupCanvas
    /\ scenario' = Track("setup")
    /\ last' = Other
    /\ UNCHANGED <<fillRun, history, historyIndex, savedCanvasState, isDrawing,
                   canUndo, selectedTool, selectedColor, startPos,
                   streamCreated, captures, readyCount>>

\* setSelectedColor(c): same effect re-run, with the new stroke colour.
SetSelectedColor(c) ==
    /\ ops < MaxOps
    /\ c # selectedColor
    /\ ops' = ops + 1
    /\ selectedColor' = c
    /\ UNCHANGED <<props, audioVars, gestureVars, liveVars, fadeVars>>
    /\ SetupCanvas
    /\ scenario' = Track("setup")
    /\ last' = Other
    /\ UNCHANGED <<fillRun, history, historyIndex, savedCanvasState, isDrawing,
                   canUndo, selectedTool, startPos,
                   streamCreated, captures, readyCount>>

\* setSelectedTool(t) from the tool selector.
SetSelectedTool(t) ==
    /\ ops < MaxOps
    /\ t # selectedTool
    /\ ops' = ops + 1
    /\ selectedTool' = t
    /\ scenario' = Track("tool")
    /\ last' = Other
    /\ UNCHANGED <<props, audioVars, gestureVars, liveVars, fadeVars, fillRun, canvas, preview, history, historyIndex,
                   savedCanvasState, isRestoring, isDrawing, canUndo,
                   selectedColor, startPos, path, loads, snapshotTimers,
                   streamVars>>

\* startDrawing(e): pointer-down with a brush, line or circle tool; the
\* brush starts the fade recurrence when fading is enabled; onDrawingStart
\* is called last.
StartDrawing(pos) ==
    /\ mounted
    /\ selectedTool \in {"brush", "line", "circle"}
    /\ ops < MaxOps
    /\ ops' = ops + 1
    /\ isDrawing' = TRUE
    /\ pointerDown' = TRUE
    /\ unendedStarts' = unendedStarts + 1
    /\ IF selectedTool = "brush"
       THEN /\ path' = {pos}
            /\ StartFadeAnimation
            /\ UNCHANGED startPos
       ELSE /\ startPos' = pos
            /\ UNCHANGED <<path, fadeAnimation, rafs>>
    /\ scenario' = Track("down")
    /\ last' = [op |-> "startDrawing",
                kind |-> IF selectedTool # "brush" \/ ~fadingEnabled THEN "none"
                         ELSE IF fadeAnimation # 0 THEN "pending"
                         ELSE "scheduled"]
    /\ UNCHANGED <<props, audioVars, liveVars, fadingEnabled, fillRun, canvas, preview, history, historyIndex,
                   savedCanvasState, isRestoring, canUndo, selectedTool,
                   selectedColor, loads, snapshotTimers, streamVars>>

\* draw(e) whose shape tools stroke the candidate shape onto the Surface
\* Buffer instead of the Preview Overlay.
Draw_ShapeOnBuffer(pos) ==
    /\ mounted
    /\ selectedTool \in {"brush", "line", "circle"}
    /\ isDrawing
    /\ IF selectedTool = "brush"
       THEN /\ path' = path \cup {pos}
            /\ canvas' = Stroke(canvas, path', selectedColor)
            /\ UNCHANGED preview
       ELSE /\ canvas' = IF startPos = 0 THEN canvas
                         ELSE Stroke(canvas,
                                     IF selectedTool = "line"
                                     THEN LinePixels(startPos, pos)
                                     ELSE CirclePixels(startPos, pos),
                                     selectedColor)
            /\ UNCHANGED <<path, preview>>
    /\ scenario' = Track("move")
    /\ last' = Call("draw")
    /\ UNCHANGED <<props, audioVars, gestureVars, liveVars, fadeVars, fillRun, history, historyIndex, savedCanvasState,
                   isRestoring, isDrawing, canUndo, selectedTool,
                   selectedColor, startPos, loads, snapshotTimers,
                   streamVars, ops>>

\* draw(e): pointer-move; the brush strokes the whole current path onto the
\* buffer, a shape tool redraws the Preview Overlay only.
Draw(pos) ==
    /\ mounted
    /\ selectedTool \in {"brush", "line", "circle"}
    /\ isDrawing
    /\ IF selectedTool = "brush"
       THEN /\ path' = path \cup {pos}
            /\ canvas' = Stroke(canvas, path', selectedColor)
            /\ UNCHANGED preview
       ELSE /\ preview' = IF startPos = 0 THEN preview
                          ELSE IF selectedTool = "line"
                          THEN LinePixels(startPos, pos)
                          ELSE CirclePixels(startPos, pos)
            /\ UNCHANGED <<path, canvas>>
    /\ scenario' = Track("move")
    /\ last' = Call("draw")
    /\ UNCHANGED <<props, audioVars, gestureVars, liveVars, fadeVars, fillRun, history, historyIndex, savedCanvasState,
                   isRestoring, isDrawing, canUndo, selectedTool,
                   selectedColor, startPos, loads, snapshotTimers,
                   streamVars, ops>>

\* stopDrawing(e) that ends the gesture without calling saveToHistory().
StopDrawing_NoSnapshot(pos) ==
    /\ mounted
    /\ selectedTool \in {"brush", "line", "circle"}
    /\ isDrawing
    /\ isDrawing' = FALSE
    /\ pointerDown' = FALSE
    /\ unendedStarts' = unendedStarts - 1
    /\ IF selectedTool \in {"line", "circle"} /\ startPos # 0
       THEN /\ canvas' = Stroke(canvas,
                                IF selectedTool = "line"
                                THEN LinePixels(startPos, pos)
                                ELSE CirclePixels(startPos, pos),
                                selectedColor)
            /\ preview' = {}
            /\ startPos' = 0
            /\ path' = NoPath
       ELSE /\ path' = NoPath
            /\ UNCHANGED <<canvas, preview, startPos>>
    /\ StopFadeAnimation
    /\ scenario' = Track("up")
    /\ last' = Snapshot("stopDrawing")
    /\ UNCHANGED <<props, audioVars, liveVars, fadingEnabled, fillRun, isRestoring, selectedTool, selectedColor,
                   loads, snapshotTimers, streamVars, ops, history,
                   historyIndex, savedCanvasState, canUndo>>

\* stopDrawing(e): pointer-up or pointer-leave while the gesture flag is
\* set; a shape tool commits its shape, then every tool snapshots and
\* onDrawingEnd is called.
StopDrawing(pos) ==
    /\ mounted
    /\ selectedTool \in {"brush", "line", "circle"}
    /\ isDrawing
    /\ isDrawing' = FALSE
    /\ pointerDown' = FALSE
    /\ unendedStarts' = unendedStarts - 1
    /\ IF selectedTool \in {"line", "circle"} /\ startPos # 0
       THEN /\ canvas' = Stroke(canvas,
                                IF selectedTool = "line"
                                THEN LinePixels(startPos, pos)
                                ELSE CirclePixels(startPos, pos),
                                selectedColor)
            /\ preview' = {}
            /\ startPos' = 0
            /\ path' = NoPath
       ELSE /\ path' = NoPath
            /\ UNCHANGED <<canvas, preview, startPos>>
    /\ ApplySave(SaveToHistory(canvas', savedCanvasState))
    /\ StopFadeAnimation
    /\ scenario' = Track("up")
    /\ last' = Snapshot("stopDrawing")
    /\ UNCHANGED <<props, audioVars, liveVars, fadingEnabled, fillRun, isRestoring, selectedTool, selectedColor, loads,
                   snapshotTimers, streamVars, ops>>

\* handleCanvasClick(e) with the fill tool: floodFill at the clicked pixel.
HandleCanvasClick(pos) ==
    /\ selectedTool = "fill"
    /\ ops < MaxOps
    /\ ops' = ops + 1
    /\ scenario' = Track("fill")
    /\ LET f == FloodFill(canvas, width, height, PX(pos), PY(pos), selectedColor)
       IN IF f.ran
          THEN /\ canvas' = f.data
               /\ selectedTool' = "brush"
               /\ ApplySave(SaveToHistory(f.data, savedCanvasState))
               /\ last' = Snapshot("fill")
          ELSE /\ last' = Call("fillSame")
               /\ UNCHANGED <<canvas, selectedTool, history, historyIndex,
                              savedCanvasState, canUndo>>
    /\ UNCHANGED <<props, audioVars, gestureVars, liveVars, fadeVars, fillRun, preview, isRestoring, isDrawing, selectedColor,
                   startPos, path, loads, snapshotTimers, streamVars>>

\* clearCanvas() that paints white and drops the saved state, but takes no
\* snapshot.
ClearCanvas_NoSnapshot ==
    /\ ops < MaxOps
    /\ ops' = ops + 1
    /\ canvas' = Uniform(White)
    /\ savedCanvasState' = NULL
    /\ scenario' = Track("clear")
    /\ last' = Snapshot("clear")
    /\ UNCHANGED <<props, audioVars, gestureVars, liveVars, fadeVars, fillRun, preview, isRestoring, isDrawing,
                   selectedTool, selectedColor, startPos, path, loads,
                   snapshotTimers, streamVars, history, historyIndex,
                   canUndo>>

\* clearCanvas(): paint white, drop the saved state, snapshot.
ClearCanvas ==
    /\ ops < MaxOps
    /\ ops' = ops + 1
    /\ canvas' = Uniform(White)
    /\ ApplySave(SaveToHistory(Uniform(White), NULL))
    /\ scenario' = Track("clear")
    /\ last' = Snapshot("clear")
    /\ UNCHANGED <<props, audioVars, gestureVars, liveVars, fadeVars, fillRun, preview, isRestoring, isDrawing, selectedTool,
                   selectedColor, startPos, path, loads, snapshotTimers,
                   streamVars>>

\* undo() that leaves the canUndo flag as it was.
Undo_StaleFlag ==
    /\ IF historyIndex <= 0
       THEN UNCHANGED <<historyIndex, loads, canUndo>>
       ELSE /\ historyIndex' = historyIndex - 1
            /\ loads' = loads (+) SetToBag({[kind |-> "undo",
                                             src |-> history[historyIndex]]})
            /\ UNCHANGED canUndo
    /\ scenario' = Track("undo")
    /\ last' = UndoCall
    /\ UNCHANGED <<props, audioVars, gestureVars, liveVars, fadeVars, fillRun, canvas, preview, history, savedCanvasState,
                   isRestoring, isDrawing, selectedTool, selectedColor,
                   startPos, path, snapshotTimers, streamVars, ops>>

\* undo() whose early return tests cursor < 0: at cursor 0 it steps to -1,
\* where there is no entry to decode.
Undo_OffByOne ==
    /\ IF historyIndex < 0
       THEN UNCHANGED <<historyIndex, loads, canUndo>>
       ELSE /\ historyIndex' = historyIndex - 1
            /\ loads' = IF historyIndex = 0 THEN loads
                        ELSE loads (+) SetToBag({[kind |-> "undo",
                                                  src |-> history[historyIndex]]})
            /\ canUndo' = (historyIndex - 1 > 0)
    /\ scenario' = Track("undo")
    /\ last' = UndoCall
    /\ UNCHANGED <<props, audioVars, gestureVars, liveVars, fadeVars, fillRun, canvas, preview, history, savedCanvasState,
                   isRestoring, isDrawing, selectedTool, selectedColor,
                   startPos, path, snapshotTimers, streamVars, ops>>

\* undo(): early return at cursor <= 0; else step the cursor back and start
\* decoding the entry it now points at.
Undo ==
    /\ IF historyIndex <= 0
       THEN UNCHANGED <<historyIndex, loads, canUndo>>
       ELSE /\ historyIndex' = historyIndex - 1
            /\ loads' = loads (+) SetToBag({[kind |-> "undo",
                                             src |-> history[historyIndex]]})
            /\ canUndo' = (historyIndex - 1 > 0)
    /\ scenario' = Track("undo")
    /\ last' = UndoCall
    /\ UNCHANGED <<props, audioVars, gestureVars, liveVars, fadeVars, fillRun, canvas, preview, history, savedCanvasState,
                   isRestoring, isDrawing, selectedTool, selectedColor,
                   startPos, path, snapshotTimers, streamVars, ops>>

\* img.onload whose restore variant leaves the restoring guard set.
ImageLoaded_KeepsGuard(img) ==
    /\ BagIn(img, loads)
    /\ loads' = loads (-) SetToBag({img})
    /\ canvas' = DrawImage(img.src)
    /\ scenario' = Track(IF img.kind = "undo" THEN "decoded" ELSE "restored")
    /\ last' = Other
    /\ UNCHANGED <<props, audioVars, gestureVars, liveVars, fadeVars, fillRun,
                   preview, history, historyIndex, savedCanvasState,
                   isRestoring, isDrawing, canUndo, selectedTool,
                   selectedColor, startPos, path, snapshotTimers, streamVars,
                   ops>>

\* img.onload of a pending decode: replace the buffer by the image; a
\* restore started by setupCanvas also clears the restoring guard.
ImageLoaded(img) ==
    /\ BagIn(img, loads)
    /\ loads' = loads (-) SetToBag({img})
    /\ canvas' = DrawImage(img.src)
    /\ isRestoring' = IF img.kind = "restore" THEN FALSE ELSE isRestoring
    /\ scenario' = Track(IF img.kind = "undo" THEN "decoded" ELSE "restored")
    /\ last' = Other
    /\ UNCHANGED <<props, audioVars, gestureVars, liveVars, fadeVars, fillRun, preview, history, historyIndex, savedCanvasState,
                   isDrawing, canUndo, selectedTool, selectedColor, startPos,
                   path, snapshotTimers, streamVars, ops>>

\* The onload of any one pending image runs.
DecodeDone == \E img \in BagToSet(loads) : ImageLoaded(img)

\* The 100 ms timer armed by setupCanvas fires: saveToHistory().
SnapshotTimer ==
    /\ snapshotTimers > 0
    /\ snapshotTimers' = snapshotTimers - 1
    /\ ApplySave(SaveToHistory(canvas, savedCanvasState))
    /\ scenario' = Track("background")
    /\ last' = Snapshot("timer")
    /\ UNCHANGED <<props, audioVars, gestureVars, liveVars, fadeVars, fillRun, canvas, preview, isRestoring, isDrawing,
                   selectedTool, selectedColor, startPos, path, loads,
                   streamVars, ops>>

\* createStream resumes from waitForCanvasStreamStability: captureStream,
\* then suspends in validateStreamStability.
WaitStableDone ==
    /\ boot.waitStable > 0
    /\ captures' = captures + 1
    /\ boot' = [waitStable |-> boot.waitStable - 1, validate |-> boot.validate + 1]
    /\ scenario' = Track("background")
    /\ last' = Other
    /\ UNCHANGED <<props, audioVars, gestureVars, liveVars, fadeVars, fillRun, canvas, preview, history, historyIndex,
                   savedCanvasState, isRestoring, isDrawing, canUndo,
                   selectedTool, selectedColor, startPos, path, loads,
                   snapshotTimers, streamCreated, readyCount, ops>>

\* createStream resumes from validation (whatever it reported): attach the
\* audio track, set the created flag, notify onStreamReady.
ValidateDone ==
    /\ boot.validate > 0
    /\ boot' = [boot EXCEPT !.validate = @ - 1]
    /\ streamCreated' = TRUE
    /\ readyCount' = readyCount + 1
    /\ scenario' = Track("background")
    /\ RequestTrack
    /\ last' = Other
    /\ UNCHANGED <<props, gestureVars, liveVars, fadeVars, fillRun, canvas, preview, history, historyIndex,
                   savedCanvasState, isRestoring, isDrawing, canUndo,
                   selectedTool, selectedColor, startPos, path, loads,
                   snapshotTimers, captures, ops>>

Next ==
    \/ SetBrushSize
    \/ \E c \in Palette : SetSelectedColor(c)
    \/ \E t \in Tools : SetSelectedTool(t)
    \/ \E pos \in Pixels : StartDrawing(pos)
    \/ \E pos \in Pixels : Draw(pos)
    \/ \E pos \in Pixels : StopDrawing(pos)
    \/ \E pos \in Pixels : HandleCanvasClick(pos)
    \/ ClearCanvas
    \/ Undo
    \/ DecodeDone
    \/ SnapshotTimer
    \/ WaitStableDone
    \/ ValidateDone

Spec == Init /\ [][Next]_vars

\* ------------------------------------- calls that find no 2d context
\* NoCtxSpec adds the handlers' paths on which canvas.getContext("2d")
\* returns null for the call.
NoCtx(name) == [op |-> "noctx", kind |-> name]
Handlers == <<canvas, preview, history, historyIndex, savedCanvasState,
              isRestoring, isDrawing, canUndo, selectedTool, selectedColor,
              startPos, path, loads, snapshotTimers, ops, scenario>>

\* startDrawing(e): returns before the gesture flag is set.
StartDrawingNoCtx ==
    /\ mounted
    /\ selectedTool \in {"brush", "line", "circle"}
    /\ pointerDown' = TRUE
    /\ last' = NoCtx("startDrawing")
    /\ UNCHANGED <<props, audioVars, unendedStarts, liveVars, fadeVars, fillRun, streamVars, Handlers>>

\* draw(e): the brush returns at the context test; a shape tool finds no
\* preview context either, in clearPreview and after it.
DrawNoCtx ==
    /\ mounted
    /\ selectedTool \in {"brush", "line", "circle"}
    /\ isDrawing
    /\ last' = NoCtx("draw")
    /\ UNCHANGED <<props, audioVars, gestureVars, liveVars, fadeVars, fillRun, streamVars, Handlers>>

\* handleCanvasClick(e) with the fill tool: floodFill returns at the
\* context test.
HandleCanvasClickNoCtx ==
    /\ selectedTool = "fill"
    /\ last' = NoCtx("fill")
    /\ UNCHANGED <<props, audioVars, gestureVars, liveVars, fadeVars, fillRun, streamVars, Handlers>>

\* clearCanvas(): returns at the context test, before onClear.
ClearCanvasNoCtx ==
    /\ last' = NoCtx("clear")
    /\ UNCHANGED <<props, audioVars, gestureVars, liveVars, fadeVars, fillRun, streamVars, Handlers>>

\* undo(): the cursor test and the decrement come first, the context test
\* after them; the return there skips the decode and setCanUndo.
UndoNoCtx ==
    /\ historyIndex' = IF historyIndex <= 0 THEN historyIndex
                       ELSE historyIndex - 1
    /\ last' = NoCtx("undo")
    /\ UNCHANGED <<props, audioVars, gestureVars, liveVars, fadeVars, fillRun, streamVars, canvas, preview, history,
                   savedCanvasState, isRestoring, isDrawing, canUndo,
                   selectedTool, selectedColor, startPos, path, loads,
                   snapshotTimers, ops, scenario>>

NoCtxNext ==
    \/ Next
    \/ StartDrawingNoCtx
    \/ DrawNoCtx
    \/ HandleCanvasClickNoCtx
    \/ ClearCanvasNoCtx
    \/ UndoNoCtx

NoCtxSpec == Init /\ [][NoCtxNext]_vars

\* ------------------------------------------------------- reconfiguration
\* ResizeSpec adds a re-render with a new width prop (between gestures):
\* setupCanvas depends on width and height, so the effect re-runs.
Resize(w) ==
    /\ ops < MaxOps
    /\ ~isDrawing
    /\ w # width
    /\ ops' = ops + 1
    /\ width' = w
    /\ UNCHANGED <<enableStreaming, maxHistorySize, height, liveVars, fadeVars,
                   audioVars, gestureVars>>
    /\ SetupCanvas
    /\ scenario' = Track("setup")
    /\ last' = Call("resize")
    /\ UNCHANGED <<fillRun, history, historyIndex, savedCanvasState,
                   isDrawing, canUndo, selectedTool, selectedColor, startPos,
                   streamCreated, captures, readyCount>>

ResizeNext ==
    \/ Next
    \/ \E w \in {W, W + 1} : Resize(w)

ResizeSpec == Init /\ [][ResizeNext]_vars

\* ------------------------------------------- flood fill, step by step
\* FillSpec follows floodFill(startX, startY, fillColor) through its loop on
\* a GridW x GridH buffer: the call may start anywhere in or one pixel
\* around the buffer, and the same call may be made a second time.
InBounds(x, y) == x >= 0 /\ x < width /\ y >= 0 /\ y < height
PixelAt(x, y) == y * width + x + 1

\* floodFill up to the stack initialisation whose early return also forces
\* the start pixel to the opaque fill colour.
FillBegin_ForceAlpha(startX, startY, fillColor) ==
    /\ \/ fillRun.pc = "idle"
       \/ /\ fillRun.pc = "done"
          /\ fillRun.calls = 1
          /\ <<startX, startY, fillColor>> = <<fillRun.x, fillRun.y, fillRun.color>>
    /\ LET startIndex == startY * width + startX
           target == IF startIndex \in 0..(width * height - 1)
                     THEN RgbOf(canvas[startIndex + 1]) ELSE "undefined"
           run == [x |-> startX, y |-> startY, color |-> fillColor,
                   before |-> canvas, target |-> target,
                   painted |-> [p \in Pixels |-> 0],
                   calls |-> IF fillRun.pc = "idle" THEN 1 ELSE 2]
       IN IF target = RgbOf(fillColor)
          THEN /\ fillRun' = [pc |-> "done", ran |-> FALSE, data |-> canvas,
                              stack |-> <<>>] @@ run
               /\ canvas' = [canvas EXCEPT ![startIndex + 1] = fillColor]
               /\ last' = Call("fillSame")
          ELSE /\ fillRun' = [pc |-> "loop", ran |-> TRUE, data |-> canvas,
                              stack |-> << <<startX, startY>> >>] @@ run
               /\ canvas' = canvas
               /\ last' = Call("fillBegin")
    /\ UNCHANGED <<props, audioVars, gestureVars, liveVars, fadeVars, preview, history, historyIndex,
                   savedCanvasState, isRestoring, isDrawing, canUndo,
                   selectedTool, selectedColor, startPos, path, loads,
                   snapshotTimers, streamVars, ops, scenario>>

\* floodFill that pushes its start pixel even when the pixel already has
\* the fill RGB.
FillBegin_NoEarlyReturn(startX, startY, fillColor) ==
    /\ \/ fillRun.pc = "idle"
       \/ /\ fillRun.pc = "done"
          /\ fillRun.calls = 1
          /\ <<startX, startY, fillColor>> = <<fillRun.x, fillRun.y, fillRun.color>>
    /\ LET startIndex == startY * width + startX
           target == IF startIndex \in 0..(width * height - 1)
                     THEN RgbOf(canvas[startIndex + 1]) ELSE "undefined"
           run == [x |-> startX, y |-> startY, color |-> fillColor,
                   before |-> canvas, target |-> target,
                   painted |-> [p \in Pixels |-> 0],
                   calls |-> IF fillRun.pc = "idle" THEN 1 ELSE 2]
       IN /\ fillRun' = [pc |-> "loop", ran |-> TRUE, data |-> canvas,
                         stack |-> << <<startX, startY>> >>] @@ run
          /\ last' = Call("fillBegin")
    /\ UNCHANGED <<props, audioVars, gestureVars, liveVars, fadeVars, canvas, preview, history, historyIndex,
                   savedCanvasState, isRestoring, isDrawing, canUndo,
                   selectedTool, selectedColor, startPos, path, loads,
                   snapshotTimers, streamVars, ops, scenario>>

\* floodFill from its entry to the stack initialisation: read the buffer,
\* read the start pixel (undefined outside the data array), return at once
\* when it already has the fill RGB, else push the start position.
FillBegin(startX, startY, fillColor) ==
    /\ \/ fillRun.pc = "idle"
       \/ /\ fillRun.pc = "done"
          /\ fillRun.calls = 1
          /\ <<startX, startY, fillColor>> = <<fillRun.x, fillRun.y, fillRun.color>>
    /\ LET startIndex == startY * width + startX
           target == IF startIndex \in 0..(width * height - 1)
                     THEN RgbOf(canvas[startIndex + 1]) ELSE "undefined"
           run == [x |-> startX, y |-> startY, color |-> fillColor,
                   before |-> canvas, target |-> target,
                   painted |-> [p \in Pixels |-> 0],
                   calls |-> IF fillRun.pc = "idle" THEN 1 ELSE 2]
       IN IF target = RgbOf(fillColor)
          THEN /\ fillRun' = [pc |-> "done", ran |-> FALSE, data |-> canvas,
                              stack |-> <<>>] @@ run
               /\ last' = Call("fillSame")
          ELSE /\ fillRun' = [pc |-> "loop", ran |-> TRUE, data |-> canvas,
                              stack |-> << <<startX, startY>> >>] @@ run
               /\ last' = Call("fillBegin")
    /\ UNCHANGED <<props, audioVars, gestureVars, liveVars, fadeVars, canvas, preview, history, historyIndex,
                   savedCanvasState, isRestoring, isDrawing, canUndo,
                   selectedTool, selectedColor, startPos, path, loads,
                   snapshotTimers, streamVars, ops, scenario>>

\* One loop iteration that pushes only three of the four neighbours.
FillStep_ThreeWay ==
    /\ fillRun.pc = "loop"
    /\ fillRun.stack # <<>>
    /\ LET stack == fillRun.stack
           top == stack[Len(stack)]
           rest == SubSeq(stack, 1, Len(stack) - 1)
           x == top[1]
           y == top[2]
           p == PixelAt(x, y)
       IN IF ~InBounds(x, y)
          THEN fillRun' = [fillRun EXCEPT !.stack = rest]
          ELSE IF RgbOf(fillRun.data[p]) # fillRun.target
          THEN fillRun' = [fillRun EXCEPT !.stack = rest]
          ELSE fillRun' = [fillRun EXCEPT
                              !.data[p] = fillRun.color,
                              !.painted[p] = @ + 1,
                              !.stack = rest \o << <<x + 1, y>>, <<x - 1, y>>,
                                                   <<x, y + 1>> >>]
    /\ last' = Call("fillStep")
    /\ UNCHANGED <<props, audioVars, gestureVars, liveVars, fadeVars, canvas, preview, history, historyIndex,
                   savedCanvasState, isRestoring, isDrawing, canUndo,
                   selectedTool, selectedColor, startPos, path, loads,
                   snapshotTimers, streamVars, ops, scenario>>

\* One iteration of the while loop: pop; skip a position outside the
\* buffer or a pixel whose RGB is not the target; else recolour the pixel
\* (alpha 255) and push its four neighbours.
FillStep ==
    /\ fillRun.pc = "loop"
    /\ fillRun.stack # <<>>
    /\ LET stack == fillRun.stack
           top == stack[Len(stack)]
           rest == SubSeq(stack, 1, Len(stack) - 1)
           x == top[1]
           y == top[2]
           p == PixelAt(x, y)
       IN IF ~InBounds(x, y)
          THEN fillRun' = [fillRun EXCEPT !.stack = rest]
          ELSE IF RgbOf(fillRun.data[p]) # fillRun.target
          THEN fillRun' = [fillRun EXCEPT !.stack = rest]
          ELSE fillRun' = [fillRun EXCEPT
                              !.data[p] = fillRun.color,
                              !.painted[p] = @ + 1,
                              !.stack = rest \o << <<x + 1, y>>, <<x - 1, y>>,
                                                   <<x, y + 1>>, <<x, y - 1>> >>]
    /\ last' = Call("fillStep")
    /\ UNCHANGED <<props, audioVars, gestureVars, liveVars, fadeVars, canvas, preview, history, historyIndex,
                   savedCanvasState, isRestoring, isDrawing, canUndo,
                   selectedTool, selectedColor, startPos, path, loads,
                   snapshotTimers, streamVars, ops, scenario>>

\* floodFill after the loop that writes the pixels back and reverts the
\* tool, but takes no snapshot.
FillEnd_NoSnapshot ==
    /\ fillRun.pc = "loop"
    /\ fillRun.stack = <<>>
    /\ canvas' = fillRun.data
    /\ selectedTool' = "brush"
    /\ fillRun' = [fillRun EXCEPT !.pc = "done"]
    /\ last' = Snapshot("fill")
    /\ UNCHANGED <<props, audioVars, gestureVars, liveVars, fadeVars, preview, isRestoring, isDrawing, selectedColor,
                   startPos, path, loads, snapshotTimers, streamVars, ops,
                   scenario, history, historyIndex, savedCanvasState,
                   canUndo>>

\* floodFill after the loop: putImageData, setSelectedTool("brush"),
\* saveToHistory().
FillEnd ==
    /\ fillRun.pc = "loop"
    /\ fillRun.stack = <<>>
    /\ canvas' = fillRun.data
    /\ selectedTool' = "brush"
    /\ ApplySave(SaveToHistory(fillRun.data, savedCanvasState))
    /\ fillRun' = [fillRun EXCEPT !.pc = "done"]
    /\ last' = Snapshot("fill")
    /\ UNCHANGED <<props, audioVars, gestureVars, liveVars, fadeVars, preview, isRestoring, isDrawing, selectedColor,
                   startPos, path, loads, snapshotTimers, streamVars, ops,
                   scenario>>

\* The buffers floodFill is tried on: every bitmap holding at most two of
\* the values white, black and transparent.
FillBuffers ==
    UNION {[1..(GridW * GridH) -> {a, b}] :
              a \in {White, "K", Transparent}, b \in {White, "K", Transparent}}

\* A mounted component with the fill tool selected and one History Log
\* entry; on a freshly reset (fully transparent) buffer a restore of the
\* saved snapshot may be pending.
FillInit ==
    /\ enableStreaming = FALSE
    /\ maxHistorySize = MaxHistoryBound
    /\ width = GridW
    /\ height = GridH
    /\ fillRun = NoFill
    /\ mounted = TRUE
    /\ hidden = FALSE
    /\ fps = FPS
    /\ enableBackgroundStreaming = TRUE
    /\ hook = FirstRender
    /\ intervalRef = 0
    /\ isStreamingRef = FALSE
    /\ intervals = {}
    /\ markerWrites = 0
    /\ streamRef = 0
    /\ streams = <<>>
    /\ notified = <<>>
    /\ runs = <<>>
    /\ fadingEnabled = FALSE
    /\ fadeAnimation = 0
    /\ rafs = {}
    /\ audioTrackManager = Uninitialized
    /\ graphs = <<>>
    /\ clones = <<>>
    /\ pointerDown = FALSE
    /\ unendedStarts = 0
    /\ canvas \in FillBuffers
    /\ preview = {}
    /\ history = <<ToDataURL(canvas)>>
    /\ historyIndex = 0
    /\ savedCanvasState = ToDataURL(canvas)
    /\ isRestoring \in (IF canvas = Uniform(Transparent) THEN BOOLEAN ELSE {FALSE})
    /\ isDrawing = FALSE
    /\ canUndo = FALSE
    /\ selectedTool = "fill"
    /\ selectedColor = initialColor
    /\ startPos = 0
    /\ path = NoPath
    /\ loads = EmptyBag
    /\ snapshotTimers = 0
    /\ boot = [waitStable |-> 0, validate |-> 0]
    /\ streamCreated = FALSE
    /\ captures = 0
    /\ readyCount = 0
    /\ ops = 0
    /\ last = Other
    /\ scenario = Off

FillNext ==
    \/ \E x \in -1..GridW, y \in -1..GridH, c \in Palette : FillBegin(x, y, c)
    \/ FillStep
    \/ FillEnd

FillSpec == FillInit /\ [][FillNext]_vars

\* The loop and the code after it run to completion once the call is made.
\* The fair runs start on committed (fully opaque) buffers.
FairFillInit == FillInit /\ \A p \in DOMAIN canvas : canvas[p] # Transparent

FairFillSpec ==
    /\ FairFillInit
    /\ [][FillNext]_vars
    /\ WF_vars(FillStep)
    /\ WF_vars(FillEnd)

\* ------------------------------------------------- Stream Liveness Driver
\* The drawing-side state (everything the liveness driver and the bootstrap
\* leave alone except the bitmap itself).
drawVars == <<preview, history, historyIndex, savedCanvasState, isRestoring,
              isDrawing, canUndo, selectedTool, selectedColor, startPos, path,
              loads, snapshotTimers>>

\* stopBackgroundStreaming(): clears the interval, if any, and the flag.
StopBackgroundStreaming ==
    /\ intervals' = intervals \ {intervalRef}
    /\ intervalRef' = 0
    /\ isStreamingRef' = FALSE

\* startBackgroundStreaming() without its test of isStreamingRef.
StartBackgroundStreaming_NoGuard ==
    IF ~Enabled \/ ~hook.canvas \/ hook.stream = 0
    THEN UNCHANGED <<intervalRef, isStreamingRef, intervals>>
    ELSE /\ isStreamingRef' = TRUE
         /\ intervalRef' = Fresh(intervals \cup {intervalRef})
         /\ intervals' = intervals \cup {intervalRef'}

\* startBackgroundStreaming(): returns unless enabled, with a canvas and a
\* stream in its closure and not yet streaming; else starts the interval.
\* (A captured stream always carries its video track.)
StartBackgroundStreaming ==
    IF ~Enabled \/ ~hook.canvas \/ hook.stream = 0 \/ isStreamingRef
    THEN UNCHANGED <<intervalRef, isStreamingRef, intervals>>
    ELSE /\ isStreamingRef' = TRUE
         /\ intervalRef' = Fresh(intervals \cup {intervalRef})
         /\ intervals' = intervals \cup {intervalRef'}

\* handleVisibilityChange() that leaves the interval running when the
\* document becomes visible.
HandleVisibilityChange_NoStop ==
    IF ~Enabled \/ ~hidden'
    THEN UNCHANGED <<intervalRef, isStreamingRef, intervals>>
    ELSE StartBackgroundStreaming

\* handleVisibilityChange(): start when hidden, stop when visible.
HandleVisibilityChange ==
    IF ~Enabled
    THEN UNCHANGED <<intervalRef, isStreamingRef, intervals>>
    ELSE IF hidden' THEN StartBackgroundStreaming ELSE StopBackgroundStreaming

\* The hook's part of a render with frame rate f: its callbacks close over
\* the new arguments; when one of them changed, the effect that owns the
\* visibilitychange listener is cleaned up (which stops the pacing) and
\* registers the new listener.
Render(f) ==
    LET args == [canvas |-> mounted, stream |-> streamRef, fps |-> f]
    IN /\ hook' = args
       /\ IF args # hook /\ Enabled
          THEN StopBackgroundStreaming
          ELSE UNCHANGED <<intervalRef, isStreamingRef, intervals>>

\* The document's visibility changes and the visibilitychange event is
\* dispatched (to the listener of a mounted, enabled hook).
VisibilityChange(h) ==
    /\ h # hidden
    /\ hidden' = h
    /\ IF mounted
       THEN HandleVisibilityChange
       ELSE UNCHANGED <<intervalRef, isStreamingRef, intervals>>
    /\ last' = Other
    /\ UNCHANGED <<props, audioVars, gestureVars, fillRun, fadeVars, mounted, fps,
                   enableBackgroundStreaming, hook, markerWrites, runVars,
                   canvas, drawVars, streamVars, ops, scenario>>

\* A render caused by the parent, with the same props.
ParentRender ==
    /\ mounted
    /\ Render(fps)
    /\ last' = Other
    /\ UNCHANGED <<props, audioVars, gestureVars, fillRun, fadeVars, hostVars, markerWrites, runVars,
                   canvas, drawVars, streamVars, ops, scenario>>

\* A render with a new fps prop: createStream depends on fps, setupCanvas on
\* createStream, so the setup effect re-runs too (and may bootstrap again).
SetFps(f) ==
    /\ mounted
    /\ ops < MaxRenders
    /\ f # fps
    /\ ops' = ops + 1
    /\ fps' = f
    /\ Render(f)
    /\ UNCHANGED <<props, audioVars, gestureVars>>
    /\ SetupCanvas
    /\ runs' = IF ~streamCreated /\ enableStreaming
               THEN Append(runs, NewRun) ELSE runs
    /\ scenario' = Track("setup")
    /\ last' = Other
    /\ UNCHANGED <<fillRun, fadeVars, mounted, hidden,
                   enableBackgroundStreaming, markerWrites, streamRef,
                   streams, notified, history, historyIndex,
                   savedCanvasState, isDrawing, canUndo, selectedTool,
                   selectedColor, startPos, streamCreated, captures,
                   readyCount>>

\* A pacing tick that requests a snapshot after writing the marker pixel.
PacingTick_Snapshots ==
    /\ intervals # {}
    /\ markerWrites < MaxTicks
    /\ IF mounted
       THEN /\ canvas' = FillMarker(canvas)
            /\ markerWrites' = markerWrites + 1
            /\ ApplySave(SaveToHistory(canvas', savedCanvasState))
       ELSE UNCHANGED <<canvas, markerWrites, history, historyIndex,
                        savedCanvasState, canUndo>>
    /\ last' = Call("pacingTick")
    /\ UNCHANGED <<props, audioVars, gestureVars, fillRun, fadeVars, hostVars, hook, intervalRef,
                   isStreamingRef, intervals, runVars, preview, isRestoring,
                   isDrawing, selectedTool, selectedColor, startPos, path,
                   loads, snapshotTimers, streamVars, ops, scenario>>

\* The pacing interval fires: onBackgroundFrame is renderBackgroundFrame,
\* which writes the marker pixel unless the canvas is gone.
PacingTick ==
    /\ intervals # {}
    /\ markerWrites < MaxTicks
    /\ IF mounted
       THEN /\ canvas' = FillMarker(canvas)
            /\ markerWrites' = markerWrites + 1
       ELSE UNCHANGED <<canvas, markerWrites>>
    /\ last' = Call("pacingTick")
    /\ UNCHANGED <<props, audioVars, gestureVars, fillRun, fadeVars, hostVars, hook, intervalRef,
                   isStreamingRef, intervals, runVars, drawVars, streamVars,
                   ops, scenario>>

\* The host renders a frame of the visible document while the component has
\* no requestAnimationFrame callback pending: none of its code runs.
FrameTick ==
    /\ ~hidden
    /\ rafs = {}
    /\ last' = Call("frameTick")
    /\ UNCHANGED <<props, audioVars, gestureVars, fillRun, fadeVars, liveVars, canvas, drawVars,
                   streamVars, ops, scenario>>

\* The component unmounts: React clears canvasRef and runs the effect
\* cleanups (the fade effect's and the hook's two).
Unmount ==
    /\ mounted
    /\ mounted' = FALSE
    /\ StopFadeAnimation
    /\ StopBackgroundStreaming
    /\ last' = Other
    /\ UNCHANGED <<props, audioVars, gestureVars, fillRun, fadingEnabled, hidden, fps,
                   enableBackgroundStreaming, hook, markerWrites, runVars,
                   canvas, drawVars, streamVars, ops, scenario>>

\* ---------------------------------------- Stream Bootstrap, run by run
\* What waitForCanvasStreamStability resolves to: whether the pixel at
\* (0,0) has a non-zero channel.
Probe == IF canvas[1] # Transparent THEN "content" ELSE "empty"
\* What validateStreamStability can report (validateAudio is false), or a
\* rejection, which createStream catches.
Outcomes == {"stable", "not active", "no video tracks", "not live",
             "became inactive", "rejected"}

\* createStream run r resumes from waitForCanvasStreamStability (whose
\* result it drops), captures the stream and suspends in validation.
ProbeDone(r) ==
    /\ r \in DOMAIN runs
    /\ runs[r].pc = "WaitStable"
    /\ streams' = Append(streams, [audio |-> FALSE, stopped |-> FALSE])
    /\ runs' = [runs EXCEPT ![r] = [pc |-> "Validate",
                                    stream |-> Len(streams) + 1,
                                    trace |-> <<"WaitStable", "Capture">>]]
    /\ captures' = captures + 1
    /\ boot' = [waitStable |-> boot.waitStable - 1,
                validate |-> boot.validate + 1]
    /\ last' = [op |-> "probe", kind |-> Probe]
    /\ UNCHANGED <<props, audioVars, gestureVars, fillRun, fadeVars, hostVars, pacingVars, streamRef,
                   notified, canvas, drawVars, streamCreated, readyCount,
                   ops, scenario>>

\* createStream that calls onStreamReady before it attaches the audio track.
ValidationDone_NotifyFirst(r, outcome) ==
    /\ r \in DOMAIN runs
    /\ runs[r].pc = "Validate"
    /\ LET s == runs[r].stream
       IN /\ notified' = Append(notified, [stream |-> s,
                                           audio |-> streams[s].audio,
                                           mounted |-> mounted])
          /\ streams' = [streams EXCEPT ![s].audio = TRUE]
          /\ streamRef' = s
    /\ runs' = [runs EXCEPT ![r].pc = "Ready",
                            ![r].trace = @ \o <<"Validate", "Ready", "AttachAudio">>]
    /\ streamCreated' = TRUE
    /\ readyCount' = readyCount + 1
    /\ boot' = [boot EXCEPT !.validate = @ - 1]
    /\ RequestTrack
    /\ last' = [op |-> "validate", kind |-> outcome]
    /\ UNCHANGED <<props, gestureVars, fillRun, fadeVars, hostVars, pacingVars, canvas,
                   drawVars, captures, ops, scenario>>

\* createStream that gives up when validation does not report a stable
\* stream.
ValidationDone_AbortOnFailure(r, outcome) ==
    /\ r \in DOMAIN runs
    /\ runs[r].pc = "Validate"
    /\ IF outcome = "stable"
       THEN LET s == runs[r].stream
            IN /\ streams' = [streams EXCEPT ![s].audio = TRUE]
               /\ streamRef' = s
               /\ RequestTrack
               /\ notified' = Append(notified, [stream |-> s,
                                                audio |-> streams'[s].audio,
                                                mounted |-> mounted])
               /\ runs' = [runs EXCEPT ![r].pc = "Ready",
                              ![r].trace = @ \o <<"Validate", "AttachAudio", "Ready">>]
               /\ streamCreated' = TRUE
               /\ readyCount' = readyCount + 1
       ELSE /\ runs' = [runs EXCEPT ![r].pc = "Aborted",
                                    ![r].trace = @ \o <<"Validate">>]
            /\ UNCHANGED <<streams, streamRef, notified, streamCreated,
                           readyCount, audioVars>>
    /\ boot' = [boot EXCEPT !.validate = @ - 1]
    /\ last' = [op |-> "validate", kind |-> outcome]
    /\ UNCHANGED <<props, gestureVars, fillRun, fadeVars, hostVars, pacingVars, canvas,
                   drawVars, captures, ops, scenario>>

\* createStream run r resumes from validateStreamStability with any
\* outcome: it attaches the silent audio track, stores the stream, sets
\* the created flag and calls onStreamReady.
ValidationDone(r, outcome) ==
    /\ r \in DOMAIN runs
    /\ runs[r].pc = "Validate"
    /\ LET s == runs[r].stream
       IN /\ streams' = [streams EXCEPT ![s].audio = TRUE]
          /\ streamRef' = s
          /\ notified' = Append(notified, [stream |-> s,
                                           audio |-> streams'[s].audio,
                                           mounted |-> mounted])
    /\ runs' = [runs EXCEPT ![r].pc = "Ready",
                            ![r].trace = @ \o <<"Validate", "AttachAudio", "Ready">>]
    /\ streamCreated' = TRUE
    /\ readyCount' = readyCount + 1
    /\ boot' = [boot EXCEPT !.validate = @ - 1]
    /\ RequestTrack
    /\ last' = [op |-> "validate", kind |-> outcome]
    /\ UNCHANGED <<props, gestureVars, fillRun, fadeVars, hostVars, pacingVars, canvas,
                   drawVars, captures, ops, scenario>>

\* LiveSpec follows the component from its mount with streaming enabled:
\* the bootstrap run by run, the initial snapshot timer, restores, renders,
\* visibility changes, pacing ticks, frames and the unmount.
LiveInit ==
    /\ Init
    /\ enableStreaming
    /\ maxHistorySize = MaxHistoryBound

LiveNext ==
    \/ \E r \in 1..(MaxRenders + 1) : ProbeDone(r)
    \/ \E r \in 1..(MaxRenders + 1), outcome \in Outcomes : ValidationDone(r, outcome)
    \/ SnapshotTimer
    \/ DecodeDone
    \/ ParentRender
    \/ \E f \in {FPS, 2 * FPS} : SetFps(f)
    \/ \E h \in BOOLEAN : VisibilityChange(h)
    \/ PacingTick
    \/ FrameTick
    \/ Unmount

LiveSpec == LiveInit /\ [][LiveNext]_vars

\* BootSpec follows the bootstrap alone: its runs, the initial-snapshot
\* timer, the fps changes that re-run the setup (and restore, which empties
\* the probed pixel for a while) and the unmount.
BootNext ==
    \/ \E r \in 1..(MaxRenders + 1) : ProbeDone(r)
    \/ \E r \in 1..(MaxRenders + 1), outcome \in Outcomes : ValidationDone(r, outcome)
    \/ SnapshotTimer
    \/ DecodeDone
    \/ \E f \in {FPS, 2 * FPS} : SetFps(f)
    \/ Unmount

BootSpec == LiveInit /\ [][BootNext]_vars

\* The continuations of createStream are timers and promise reactions:
\* each one that is pending eventually runs.
FairBootSpec ==
    /\ BootSpec
    /\ WF_vars(\E r \in 1..(MaxRenders + 1) : ProbeDone(r))
    /\ WF_vars(\E r \in 1..(MaxRenders + 1), outcome \in Outcomes : ValidationDone(r, outcome))

\* HookSpec calls the functions useBackgroundStreaming returns to its owner
\* (start and stop, at any time) next to the events of a mounted component.
CallStart ==
    /\ mounted
    /\ StartBackgroundStreaming
    /\ last' = [op |-> "start", kind |-> IF isStreamingRef THEN "running" ELSE "stopped"]
    /\ UNCHANGED <<props, audioVars, gestureVars, fillRun, fadeVars, hostVars, hook, markerWrites,
                   runVars, canvas, drawVars, streamVars, ops, scenario>>

CallStop ==
    /\ mounted
    /\ StopBackgroundStreaming
    /\ last' = [op |-> "stop", kind |-> IF isStreamingRef THEN "running" ELSE "stopped"]
    /\ UNCHANGED <<props, audioVars, gestureVars, fillRun, fadeVars, hostVars, hook, markerWrites,
                   runVars, canvas, drawVars, streamVars, ops, scenario>>

HookNext ==
    \/ \E r \in 1..(MaxRenders + 1) : ProbeDone(r)
    \/ \E r \in 1..(MaxRenders + 1), outcome \in Outcomes : ValidationDone(r, outcome)
    \/ ParentRender
    \/ \E h \in BOOLEAN : VisibilityChange(h)
    \/ PacingTick
    \/ Unmount
    \/ CallStart
    \/ CallStop

HookSpec == LiveInit /\ [][HookNext]_vars

\* ------------------------------------- Silent-Audio Provider, call by call
\* AudioSpec follows the singleton through the bootstrap's own track
\* request and through direct calls of its public functions.
CallCreateSilentAudioTrack ==
    /\ Len(clones) < MaxRequests
    /\ RequestTrack
    /\ last' = [op |-> "request",
                kind |-> IF Len(graphs') > Len(graphs) THEN "build" ELSE "clone"]
    /\ UNCHANGED <<props, gestureVars, fillRun, fadeVars, liveVars, canvas,
                   drawVars, streamVars, ops, scenario>>

CallCleanup ==
    /\ LET c == Cleanup(audioTrackManager, graphs)
       IN /\ audioTrackManager' = c.m
          /\ graphs' = c.graphs
    /\ last' = [op |-> "cleanup",
                kind |-> IF audioTrackManager = Uninitialized THEN "idle"
                         ELSE "teardown"]
    /\ UNCHANGED <<props, gestureVars, fillRun, fadeVars, liveVars, canvas,
                   drawVars, streamVars, ops, scenario, clones>>

CallReset ==
    /\ LET c == Reset(audioTrackManager, graphs)
       IN /\ audioTrackManager' = c.m
          /\ graphs' = c.graphs
    /\ last' = [op |-> "reset",
                kind |-> IF audioTrackManager = Uninitialized THEN "idle"
                         ELSE "teardown"]
    /\ UNCHANGED <<props, gestureVars, fillRun, fadeVars, liveVars, canvas,
                   drawVars, streamVars, ops, scenario, clones>>

AudioNext ==
    \/ \E r \in 1..(MaxRenders + 1) : ProbeDone(r)
    \/ \E r \in 1..(MaxRenders + 1), outcome \in Outcomes : ValidationDone(r, outcome)
    \/ CallCreateSilentAudioTrack
    \/ CallCleanup
    \/ CallReset

AudioSpec == LiveInit /\ [][AudioNext]_vars

\* ------------------------------------------- fade decay, tick by tick
\* The fading checkbox: setFadingEnabled(b) re-renders; the effects copy the
\* state into fadingEnabledRef and, as fadingEnabled changed, run the fade
\* effect's cleanup and body, which call stopFadeAnimation().
ToggleFading(b) ==
    /\ mounted
    /\ b # fadingEnabled
    /\ fadingEnabled' = b
    /\ StopFadeAnimation
    /\ scenario' = Track("fading")
    /\ last' = [op |-> "toggleFading",
                kind |-> IF fadeAnimation # 0 THEN "cancelled" ELSE "none"]
    /\ UNCHANGED <<props, audioVars, gestureVars, fillRun, liveVars, canvas, drawVars, streamVars, ops>>

\* The animation frame runs the scheduled fadeFrame h: it ends the
\* recurrence when fading is off or no gesture is active, else composites
\* the wash and schedules itself again.
FadeFrame(h) ==
    /\ h \in rafs
    /\ ~hidden
    /\ IF ~fadingEnabled \/ ~isDrawing
       THEN /\ fadeAnimation' = 0
            /\ rafs' = rafs \ {h}
            /\ last' = [op |-> "fadeFrame", kind |-> "end"]
            /\ UNCHANGED canvas
       ELSE /\ canvas' = Wash(canvas)
            /\ fadeAnimation' = Fresh(rafs \cup {fadeAnimation})
            /\ rafs' = (rafs \ {h}) \cup {fadeAnimation'}
            /\ last' = [op |-> "fadeFrame", kind |-> "wash"]
    /\ scenario' = Track("fading")
    /\ UNCHANGED <<props, audioVars, gestureVars, fillRun, liveVars, fadingEnabled, drawVars,
                   streamVars, ops>>

\* FadeSpec follows brush gestures with the fading checkbox and the
\* animation frames (streaming disabled, so nothing else is scheduled).
FadeInit ==
    /\ Init
    /\ ~enableStreaming
    /\ maxHistorySize = MaxHistoryBound

FadeNext ==
    \/ \E b \in BOOLEAN : ToggleFading(b)
    \/ \E pos \in Pixels : StartDrawing(pos)
    \/ \E pos \in Pixels : Draw(pos)
    \/ \E pos \in Pixels : StopDrawing(pos)
    \/ \E h \in 1..(MaxOps + 2) : FadeFrame(h)
    \/ Unmount

FadeSpec == FadeInit /\ [][FadeNext]_vars

\* --------------------------------------------- gestures, event by event
\* stopDrawing(e) that takes the snapshot and notifies although no gesture
\* is active.
StopDrawingIdle_EndsAgain(pos) ==
    /\ mounted
    /\ selectedTool \in {"brush", "line", "circle"}
    /\ ~isDrawing
    /\ pointerDown' = FALSE
    /\ unendedStarts' = unendedStarts - 1
    /\ ApplySave(SaveToHistory(canvas, savedCanvasState))
    /\ scenario' = Track("up")
    /\ last' = Call("stopDrawingIdle")
    /\ UNCHANGED <<props, audioVars, liveVars, fadeVars,
                   fillRun, canvas, preview, isRestoring, isDrawing,
                   selectedTool, selectedColor, startPos, path, loads,
                   snapshotTimers, streamVars, ops>>

\* stopDrawing(e) while the gesture flag is clear (a pointer-leave after a
\* pointer-up, a pointer passing over the canvas): the handler does nothing.
StopDrawingIdle(pos) ==
    /\ mounted
    /\ selectedTool \in {"brush", "line", "circle"}
    /\ ~isDrawing
    /\ pointerDown' = FALSE
    /\ scenario' = Track("up")
    /\ last' = Call("stopDrawingIdle")
    /\ UNCHANGED <<props, audioVars, unendedStarts, liveVars,
                   fadeVars, fillRun, canvas, preview, history, historyIndex,
                   savedCanvasState, isRestoring, isDrawing, canUndo,
                   selectedTool, selectedColor, startPos, path, loads,
                   snapshotTimers, streamVars, ops>>

\* The pointer is released while the fill tool is selected: the canvas has
\* no mouse-up, mouse-leave or touch-end handler then, so nothing runs.
PointerUpUnbound ==
    /\ mounted
    /\ selectedTool = "fill"
    /\ pointerDown
    /\ pointerDown' = FALSE
    /\ scenario' = Track("up")
    /\ last' = Call("pointerUp")
    /\ UNCHANGED <<props, audioVars, unendedStarts, liveVars,
                   fadeVars, fillRun, canvas, preview, history, historyIndex,
                   savedCanvasState, isRestoring, isDrawing, canUndo,
                   selectedTool, selectedColor, startPos, path, loads,
                   snapshotTimers, streamVars, ops>>

\* GestureSpec follows the canvas's pointer events with the tool selector
\* (streaming disabled, so nothing runs in the background).
GestureNext ==
    \/ \E t \in Tools : SetSelectedTool(t)
    \/ \E pos \in Pixels : StartDrawing(pos)
    \/ \E pos \in Pixels : Draw(pos)
    \/ \E pos \in Pixels : StopDrawing(pos)
    \/ \E pos \in Pixels : StopDrawingIdle(pos)
    \/ \E pos \in Pixels : HandleCanvasClick(pos)
    \/ PointerUpUnbound

GestureInit == Init /\ ~enableStreaming

GestureSpec == GestureInit /\ [][GestureNext]_vars

\* ------------------------------------------------ undo, decode by decode
\* UndoSpec follows edits, undo calls and the image decodes they start, with
\* the initial-snapshot timer; the decodes complete in any order.
UndoNext ==
    \/ \E pos \in Pixels : StartDrawing(pos)
    \/ \E pos \in Pixels : Draw(pos)
    \/ \E pos \in Pixels : StopDrawing(pos)
    \/ ClearCanvas
    \/ Undo
    \/ DecodeDone
    \/ SnapshotTimer

UndoSpec == Init /\ [][UndoNext]_vars

\* An image whose src is set eventually loads, and the armed timer fires.
FairUndoSpec == UndoSpec /\ WF_vars(DecodeDone) /\ WF_vars(SnapshotTimer)

\* ------------------------------------------- setup re-runs and restores
\* SetupSpec follows the setup re-runs (brush size, colour) with the
\* restores they start, the initial-snapshot timer and the edits.
SetupInit ==
    /\ Init
    /\ enableStreaming
    /\ maxHistorySize = MaxHistoryBound

SetupNext ==
    \/ SetBrushSize
    \/ \E c \in Palette : SetSelectedColor(c)
    \/ \E pos \in Pixels : StartDrawing(pos)
    \/ \E pos \in Pixels : Draw(pos)
    \/ \E pos \in Pixels : StopDrawing(pos)
    \/ ClearCanvas
    \/ DecodeDone
    \/ SnapshotTimer

SetupSpec == SetupInit /\ [][SetupNext]_vars

\* An image whose src is set eventually loads.
FairSetupSpec == SetupSpec /\ WF_vars(DecodeDone)

\* ------------------------------------------ History Log, any size bound
\* CursorSpec follows the operations that move the cursor (snapshots of
\* edits and of the timer, undo with and without a 2d context, restores)
\* for every maxHistorySize from 0.
CursorInit == Mount(0..MaxHistoryBound)

CursorNext ==
    \/ SetBrushSize
    \/ \E pos \in Pixels : StartDrawing(pos)
    \/ \E pos \in Pixels : Draw(pos)
    \/ \E pos \in Pixels : StopDrawing(pos)
    \/ ClearCanvas
    \/ Undo
    \/ UndoNoCtx
    \/ DecodeDone
    \/ SnapshotTimer

CursorSpec == CursorInit /\ [][CursorNext]_vars

\* ================================================================ claims
HasEntry == historyIndex >= 0 /\ historyIndex < Len(history)
EntryAtCursor == history[historyIndex + 1]
UndoPending == \E img \in BagToSet(loads) : img.kind = "undo"
\* The log a snapshot builds before eviction: entries up to the cursor, then
\* the serialized buffer.
Pushed == Append(SubSeq(history, 1, historyIndex + 1), ToDataURL(canvas'))
SnapshotTaken == last'.op \in SnapshotOps /\ ~isRestoring

\* The log after a snapshot: Pushed, less its oldest entry when over capacity.
Kept == IF Len(Pushed) > maxHistorySize THEN Tail(Pushed) ELSE Pushed
AppendsOneEntry == history' = Kept /\ historyIndex' = Len(Kept) - 1
LogUnchanged == history' = history /\ historyIndex' = historyIndex

\* C1: after a run of completed brush strokes, one undo call and the end of
\* its decode, the buffer equals the buffer at the pointer-down of the last
\* stroke.
C1_UndoRestoresPreStroke ==
    scenario.phase = "undone" => canvas = scenario.base

\* C2: with no gesture in progress and no decode pending, the buffer equals
\* the decoded History Log entry at the cursor.
C2_BufferMatchesCursor ==
    (~isDrawing /\ loads = EmptyBag /\ HasEntry)
        => canvas = DrawImage(EntryAtCursor)

\* C3: while an undo decode is pending, a snapshot request changes neither
\* the History Log nor the cursor.
C3_SnapshotSuppressedDuringUndo ==
    [][(UndoPending /\ last'.op \in SnapshotOps)
          => (history' = history /\ historyIndex' = historyIndex)]_vars

\* C4: the canvas is captured at most once and onStreamReady fires at most
\* once, however many times the bootstrap is invoked.
C4_BootstrapOnce == captures <= 1 /\ readyCount <= 1

\* C5: the log never holds more than maxHistorySize entries; an append that
\* would exceed it removes exactly the oldest entry, keeps the others in
\* order and leaves the cursor on the new last entry.
C5_BoundedFifo ==
    /\ [](Len(history) <= maxHistorySize)
    /\ [][(SnapshotTaken /\ Len(Pushed) > maxHistorySize)
             => /\ history' = Tail(Pushed)
                /\ historyIndex' = Len(history') - 1
                /\ history'[historyIndex' + 1] = ToDataURL(canvas')]_vars
C5_Witness ==
    /\ last.op \in SnapshotOps
    /\ last.kind = "evict"
    /\ maxHistorySize >= 2
    /\ Len(history) = maxHistorySize
    /\ historyIndex = maxHistorySize - 1
    /\ history[1] # history[2]

\* C6: a snapshot at cursor c discards the entries after c and appends the
\* new entry: before eviction the log is e[0..c] followed by the new entry,
\* and the cursor indexes that new last entry.
C6_TruncateThenAppend ==
    [][SnapshotTaken
          => /\ history' \in {Pushed, Tail(Pushed)}
             /\ Len(history') >= 1
             /\ historyIndex' = Len(history') - 1
             /\ history'[Len(history')] = ToDataURL(canvas')]_vars
C6_Witness ==
    /\ last.op \in SnapshotOps
    /\ last.kind = "truncate"
    /\ historyIndex = Len(history) - 1
    /\ Len(history) < maxHistorySize

C8_UndoNoopAtOldest ==
    [][(last'.op = "undo" /\ historyIndex <= 0)
          => UNCHANGED <<canvas, history, historyIndex, canUndo, loads>>]_vars
C8_Witness ==
    /\ last = [op |-> "undo", kind |-> "noop"]
    /\ historyIndex = 0
    /\ Len(history) >= 2

\* C9: undo() leaves the sequence of entries as it is, and entries ahead of
\* the cursor are discarded only by the snapshot of a committed edit
\* (gesture end, fill, clear).
C9_UndoKeepsEntries ==
    [][/\ (last'.op = "undo" => history' = history)
       /\ (history' # history => last'.op \in SnapshotOps)
       /\ ((history' # history /\ historyIndex + 1 < Len(history))
              => last'.op \in EditOps)]_vars

\* C10: no user edit is recorded into an empty log: the initial entry of
\* mount is there first.
C10_InitialEntryBeforeEdits ==
    [][(last'.op \in EditOps /\ ~isRestoring) => Len(history) >= 1]_vars

\* C11 (as claimed): every gesture end (pointer-up or pointer-leave of a
\* brush, line or circle gesture) appends exactly one entry; pointer-down
\* and pointer-move append none.
C11_GestureAppendsOne ==
    [][/\ (last'.op = "stopDrawing" => AppendsOneEntry)
       /\ (last'.op \in {"startDrawing", "draw"} => LogUnchanged)]_vars

\* C11 (amended): every gesture end appends exactly one entry, except that
\* while a restore of the saved snapshot is pending the snapshot is
\* suppressed and the log stays as it is; pointer-down and pointer-move
\* append none.
C11_GestureAppendsOneUnlessRestoring ==
    [][/\ (last'.op = "stopDrawing"
              => IF isRestoring THEN LogUnchanged ELSE AppendsOneEntry)
       /\ (last'.op \in {"startDrawing", "draw"} => LogUnchanged)]_vars
C11_Witness ==
    /\ last = [op |-> "stopDrawing", kind |-> "append"]
    /\ Len(history) >= 2
    /\ historyIndex = Len(history) - 1
    /\ history[Len(history)] # history[Len(history) - 1]
    /\ history[Len(history)] = ToDataURL(canvas)

\* C17: during a line or circle gesture a pointer-move leaves the Surface
\* Buffer and the History Log as they are and redraws the Preview Overlay
\* with the candidate shape; the gesture end strokes the shape onto the
\* Surface Buffer, once, clears the Preview Overlay and ends the gesture.
ShapePixels(tool, a, b) ==
    IF tool = "line" THEN LinePixels(a, b) ELSE CirclePixels(a, b)
C17_ShapePreviewOnly ==
    [][/\ (last'.op = "draw" /\ selectedTool \in {"line", "circle"})
             => /\ canvas' = canvas
                /\ LogUnchanged
                /\ startPos # 0
                       => \E pos \in Pixels :
                              preview' = ShapePixels(selectedTool, startPos, pos)
       /\ (last'.op = "stopDrawing" /\ selectedTool \in {"line", "circle"}
              /\ startPos # 0)
             => /\ \E pos \in Pixels :
                       canvas' = Stroke(canvas,
                                        ShapePixels(selectedTool, startPos, pos),
                                        selectedColor)
                /\ preview' = {}
                /\ ~isDrawing'
                /\ startPos' = 0]_vars
C17_Witness ==
    /\ last.op = "stopDrawing"
    /\ selectedTool \in {"line", "circle"}
    /\ ~isDrawing /\ startPos = 0 /\ preview = {}
    /\ \E p \in Pixels : canvas[p] = selectedColor
    /\ HasEntry /\ EntryAtCursor = ToDataURL(canvas)

\* C18 (as claimed): every clear, in every state, appends exactly one entry,
\* and that entry is the uniformly white buffer.
C18_ClearAlwaysAppends ==
    [][last'.op = "clear"
          => /\ AppendsOneEntry
             /\ history'[Len(history')] = ToDataURL(Uniform(White))]_vars

\* C18 (amended): every clear paints the buffer white and appends exactly
\* one entry, the uniformly white buffer, except that while the restoring
\* guard is set the snapshot is suppressed and the log stays as it is.
C18_ClearAppendsUnlessRestoring ==
    [][last'.op = "clear"
          => /\ canvas' = Uniform(White)
             /\ IF isRestoring
                THEN LogUnchanged
                ELSE /\ AppendsOneEntry
                     /\ history'[Len(history')] = ToDataURL(Uniform(White))]_vars
C18_Witness ==
    /\ last.op = "clear" /\ last.kind # "suppressed"
    /\ Len(history) >= 2
    /\ historyIndex = Len(history) - 1
    /\ history[Len(history)] = ToDataURL(Uniform(White))
    /\ history[Len(history) - 1] # ToDataURL(Uniform(White))
    /\ canvas = Uniform(White)

\* C19: a pointer-down, pointer-move, fill, clear or undo call that finds
\* no rendering context changes nothing: buffer, log, cursor, canUndo and
\* the gesture flag stay as they were and no decode (hence no undo
\* notification) is started.
C19_NoContextNoop ==
    [][last'.op = "noctx"
          => UNCHANGED <<canvas, history, historyIndex, canUndo, isDrawing,
                         loads>>]_vars

\* C20: after a reconfiguration of the buffer's width or height no entry
\* captured at the old dimensions remains in the log and undo is
\* unavailable.
C20_ResizeClearsHistory ==
    [][last'.op = "resize"
          => /\ \A i \in 1..Len(history') :
                    /\ history'[i].width = width'
                    /\ history'[i].height = height'
             /\ historyIndex' <= 0
             /\ ~canUndo']_vars

\* ------------------------------------------------- flood fill (FillSpec)
\* A floodFill call returns in this step (from its colour test or after the
\* loop); its start position; the buffer it was called on.
FillReturns == fillRun'.pc = "done" /\ fillRun' # fillRun
FillDone == fillRun.pc = "done"
StartInBounds == InBounds(fillRun.x, fillRun.y)
StartPixel == PixelAt(fillRun.x, fillRun.y)
SameRgbAtStart == RgbOf(fillRun.before[StartPixel]) = RgbOf(fillRun.color)

\* The pixels 4-connected to the start pixel through pixels of its RGB.
Adjacent(p, q) ==
    \/ PY(p) = PY(q) /\ (PX(p) - PX(q)) \in {-1, 1}
    \/ PX(p) = PX(q) /\ (PY(p) - PY(q)) \in {-1, 1}
RECURSIVE Reach(_, _, _)
Reach(cv, S, rgb) ==
    LET S2 == S \cup {q \in Pixels : /\ RgbOf(cv[q]) = rgb
                                     /\ \E p \in S : Adjacent(p, q)}
    IN IF S2 = S THEN S ELSE Reach(cv, S2, rgb)
Region(cv, start) == Reach(cv, {start}, RgbOf(cv[start]))

\* C12 (as claimed): every fill call, also one whose start pixel already
\* has the fill RGB, appends exactly one entry and sets the tool to brush.
C12_FillAlwaysSnapshots ==
    [][FillReturns => (AppendsOneEntry /\ selectedTool' = "brush")]_vars

\* C12 (amended): a fill call at an in-bounds pixel whose RGB differs from
\* the fill colour sets the tool to brush and appends exactly one entry
\* (none while the restoring guard is set); a fill call at a pixel that
\* already has the fill RGB changes neither the log, the buffer nor the
\* tool.
C12_FillSnapshotsUnlessSameColour ==
    [][(FillReturns /\ StartInBounds')
          => IF SameRgbAtStart'
             THEN LogUnchanged /\ UNCHANGED <<canvas, selectedTool, canUndo>>
             ELSE /\ selectedTool' = "brush"
                  /\ IF isRestoring THEN LogUnchanged ELSE AppendsOneEntry]_vars
C12_Witness ==
    /\ FillDone /\ fillRun.ran /\ StartInBounds
    /\ selectedTool = "brush"
    /\ Len(history) = 2 /\ historyIndex = 1
    /\ history[2] = ToDataURL(canvas)
    /\ history[1] # history[2]

\* C13: a fill call at an in-bounds pixel whose RGB differs from the fill
\* colour recolours exactly the pixels 4-connected to the start through
\* pixels of the start pixel's original RGB and leaves the others as they
\* were; a uniform buffer becomes uniformly the fill colour.
C13_FillsConnectedRegion ==
    (FillDone /\ StartInBounds /\ ~SameRgbAtStart)
        => /\ canvas = [p \in Pixels |->
                           IF p \in Region(fillRun.before, StartPixel)
                           THEN fillRun.color ELSE fillRun.before[p]]
           /\ (\E v \in {White, "K", Transparent} : fillRun.before = Uniform(v))
                  => canvas = Uniform(fillRun.color)
C13_Witness ==
    /\ FillDone /\ StartInBounds /\ ~SameRgbAtStart
    /\ Cardinality(Region(fillRun.before, StartPixel)) >= 2
    /\ Region(fillRun.before, StartPixel) # Pixels
    /\ \E p \in Pixels : canvas[p] # fillRun.color

\* C14: a fill call at a pixel that already has the fill RGB leaves every
\* pixel as it was, and the same call made twice in a row leaves the buffer
\* of the first call.
C14_FillIdempotent ==
    /\ (FillDone /\ StartInBounds /\ SameRgbAtStart) => canvas = fillRun.before
    /\ (FillDone /\ fillRun.calls = 2) => canvas = fillRun.before
C14_Witness ==
    /\ FillDone /\ fillRun.calls = 2 /\ StartInBounds
    /\ ~fillRun.ran
    /\ Len(history) = 2
    /\ history[1] # history[2]
    /\ canvas[StartPixel] = fillRun.color

\* C15: a fill call whose start position is outside the buffer changes no
\* pixel, leaves the log, the cursor and the selected tool as they were.
C15_FillOutOfBoundsNoop ==
    [][(FillReturns /\ ~StartInBounds')
          => UNCHANGED <<canvas, history, historyIndex, selectedTool>>]_vars

\* C16: the fill loop terminates: no pixel is recoloured twice, every
\* iteration lowers 4 * (pixels still of the target RGB) + (stack length),
\* and a call that entered the loop leaves it.
FillMeasure ==
    4 * Cardinality({p \in Pixels : RgbOf(fillRun.data[p]) = fillRun.target})
      + Len(fillRun.stack)
C16_FillLoopTerminates ==
    /\ [](fillRun.pc = "loop" => \A p \in Pixels : fillRun.painted[p] <= 1)
    /\ [][(fillRun.pc = "loop" /\ fillRun'.pc = "loop")
             => FillMeasure' < FillMeasure]_vars
    /\ ((fillRun.pc = "loop") ~> (fillRun.pc = "done" /\ fillRun.stack = <<>>))
C16_Witness ==
    /\ FillDone /\ fillRun.ran
    /\ \A p \in Pixels : fillRun.painted[p] = 1
    /\ canvas = Uniform(fillRun.color)

\* ------------------------------------------------------ bootstrap claims
Notified(s) == \E i \in DOMAIN notified : notified[i].stream = s
Captured(s) == s <= Len(streams)

\* C21: with streaming enabled and the canvas mounted, every stream that
\* captureStream has produced is eventually passed to onStreamReady,
\* whatever the probe found and whatever validation reported.
C21_ReadyAfterCapture ==
    \A s \in 1..(MaxRenders + 1) : Captured(s) ~> Notified(s)

\* A stream was published right after validation reported a failure.
C21_Witness ==
    /\ last.op = "validate"
    /\ last.kind \in Outcomes \ {"stable"}
    /\ \A s \in 1..Len(streams) : Notified(s)
    /\ streams # <<>>

StepOrder == <<"WaitStable", "Capture", "Validate", "AttachAudio", "Ready">>
IsPrefix(a, b) == Len(a) <= Len(b) /\ a = SubSeq(b, 1, Len(a))

\* C22: the steps of each bootstrap run happen in the order WaitStable,
\* Capture, Validate, AttachAudio, Ready, each at most once, and every
\* stream passed to onStreamReady already carries its audio track.
C22_BootstrapOrder ==
    /\ \A r \in DOMAIN runs : IsPrefix(runs[r].trace, StepOrder)
    /\ \A i \in DOMAIN notified : notified[i].audio /\ streams[notified[i].stream].audio

\* Two runs have both gone through all five steps.
C22_Witness ==
    /\ Len(runs) >= 2
    /\ \A r \in DOMAIN runs : runs[r].trace = StepOrder
    /\ Len(notified) = Len(runs)

\* ---------------------------------------------------------- pacing claims
BecomesHidden == ~hidden /\ hidden'
PacingActive == intervals # {}

\* C23: whenever the document becomes hidden while the component is
\* mounted, background streaming is enabled and the bootstrap has stored
\* its stream, a pacing interval is running afterwards.
C23_HiddenStartsPacing ==
    [][(BecomesHidden /\ mounted /\ Enabled /\ streamRef # 0) => PacingActive']_vars

\* C24: a pacing interval runs only while the document is hidden and the
\* component is mounted, and a tick writes the marker pixel only then.
C24_PacingOnlyWhileHidden ==
    /\ [](PacingActive => hidden /\ mounted)
    /\ [][markerWrites' # markerWrites => hidden /\ mounted /\ PacingActive]_vars

\* Pacing ran and wrote the marker while hidden; the document is visible
\* again and no interval is left.
C24_Witness ==
    /\ markerWrites > 0
    /\ ~hidden
    /\ mounted
    /\ ~PacingActive
    /\ intervalRef = 0

\* C25: a running pacing interval is stopped only by the document becoming
\* visible or by the unmount.
C25_PacingStaysActive ==
    [][(PacingActive /\ ~PacingActive') => ((hidden /\ ~hidden') \/ (mounted /\ ~mounted'))]_vars

\* C26: at most one pacing interval exists and intervalRef holds its handle;
\* starting while running and stopping while stopped change nothing.
C26_PacingIdempotent ==
    /\ [](/\ Cardinality(intervals) <= 1
          /\ intervals \subseteq {intervalRef}
          /\ isStreamingRef <=> intervals # {})
    /\ [][(last'.op = "start" /\ last'.kind = "running")
            => UNCHANGED <<intervalRef, isStreamingRef, intervals>>]_vars
    /\ [][(last'.op = "stop" /\ last'.kind = "stopped")
            => UNCHANGED <<intervalRef, isStreamingRef, intervals>>]_vars

\* Start was called while the interval was running, and one interval runs.
C26_Witness ==
    /\ last = [op |-> "start", kind |-> "running"]
    /\ Cardinality(intervals) = 1
    /\ intervalRef \in intervals

\* C27: every frame the host renders while the document is visible and the
\* component mounted writes the keep-alive marker pixel.
C27_KeepAliveEveryFrame ==
    [][(last'.op = "frameTick" /\ ~hidden /\ mounted)
        => (markerWrites' = markerWrites + 1 /\ canvas'[MarkerPixel] = Tinted)]_vars

\* C28: a write of the marker pixel leaves the History Log, the cursor and
\* canUndo as they are, and the log changes only in a snapshot request.
C28_MarkerWriteNoSnapshot ==
    /\ [][markerWrites' # markerWrites
            => UNCHANGED <<history, historyIndex, canUndo, savedCanvasState>>]_vars
    /\ [][history' # history => last'.op \in SnapshotOps]_vars

\* The marker pixel was written after the initial snapshot: the buffer
\* carries it, the entry at the cursor does not.
C28_Witness ==
    /\ markerWrites > 0
    /\ last.op = "pacingTick"
    /\ historyIndex >= 0
    /\ canvas[MarkerPixel] = Tinted
    /\ history[historyIndex + 1].data[MarkerPixel] # Tinted

\* ---------------------------------------------------------- unmount claim
\* C29: once the component is unmounted nothing it scheduled is left or
\* runs: no fade callback, no pacing interval, no initial-snapshot timer,
\* no createStream continuation (so no onStreamReady call follows), and
\* the tracks of every captured stream have been stopped.
C29_UnmountCancelsAll ==
    /\ [](~mounted => /\ rafs = {}
                      /\ intervals = {}
                      /\ snapshotTimers = 0
                      /\ \A r \in DOMAIN runs : runs[r].pc = "Ready"
                      /\ \A s \in DOMAIN streams : streams[s].stopped)
    /\ [][~mounted => notified' = notified]_vars

\* ------------------------------------------------------------ fade claims
\* C30: at most one fadeFrame callback is pending, fadeAnimationRef holds
\* its handle, and a fade start while one is pending schedules nothing.
C30_OneFadeRecurrence ==
    /\ [](/\ Cardinality(rafs) <= 1
          /\ rafs \subseteq {fadeAnimation}
          /\ fadeAnimation # 0 <=> rafs # {})
    /\ [][(last'.op = "startDrawing" /\ last'.kind = "pending")
            => UNCHANGED <<fadeAnimation, rafs>>]_vars

\* A second pointer-down arrived while a fade recurrence was pending, and
\* one recurrence is pending.
C30_Witness ==
    /\ last = [op |-> "startDrawing", kind |-> "pending"]
    /\ fadingEnabled
    /\ Cardinality(rafs) = 1

\* A step in which stopFadeAnimation() is called: the end of an active
\* gesture, a change of the fading checkbox, the unmount.
FadeStopCalled ==
    \/ last'.op = "stopDrawing" /\ isDrawing
    \/ last'.op = "toggleFading" /\ fadingEnabled' # fadingEnabled
    \/ mounted /\ ~mounted'
NoFadePending == fadeAnimation = 0 /\ rafs = {}

\* C31: a fade tick that finds fading disabled or no gesture active leaves
\* the Surface Buffer alone and schedules nothing (and no tick is pending
\* while either flag is false); when stopFadeAnimation returns no fade
\* callback is pending; a stop with none pending changes no fade state.
C31_FadeSelfTerminates ==
    /\ [][(last'.op = "fadeFrame" /\ last' # last /\ (~fadingEnabled \/ ~isDrawing))
            => (canvas' = canvas /\ rafs' \subseteq rafs /\ rafs' # rafs
                /\ fadeAnimation' = 0)]_vars
    /\ [](rafs # {} => (fadingEnabled /\ isDrawing))
    /\ [][FadeStopCalled => NoFadePending']_vars
    /\ [][(FadeStopCalled /\ NoFadePending) => UNCHANGED <<fadeAnimation, rafs>>]_vars

\* The fading checkbox was switched off in the middle of a brush gesture:
\* the stop cancelled the pending tick and nothing is pending.
C31_Witness ==
    /\ last = [op |-> "toggleFading", kind |-> "cancelled"]
    /\ ~fadingEnabled
    /\ isDrawing
    /\ NoFadePending

\* ------------------------------------------------- audio provider claims
TeardownStep == last'.op \in {"cleanup", "reset"} /\ last' # last
TrackRequested == clones' # clones
OnceEach(g) ==
    /\ g.oscStops = 1 /\ g.oscDisconnects = 1 /\ g.destDisconnects = 1
    /\ g.closes = 1 /\ g.trackStops = 1
AtMostOnceEach(g) ==
    /\ g.oscStops <= 1 /\ g.oscDisconnects <= 1 /\ g.destDisconnects <= 1
    /\ g.closes <= 1 /\ g.trackStops <= 1

\* C32: cleanup() and reset() leave the provider uninitialized with every
\* graph built so far stopped and closed exactly once; on an uninitialized
\* provider (never initialized, or already torn down) they change nothing;
\* no part is ever stopped, disconnected or closed twice; and a track
\* request on the uninitialized provider builds a new live graph.
C32_TeardownIdempotent ==
    /\ [][TeardownStep =>
            /\ audioTrackManager' = Uninitialized
            /\ \A g \in DOMAIN graphs' : OnceEach(graphs'[g])]_vars
    /\ [][(TeardownStep /\ audioTrackManager = Uninitialized)
            => UNCHANGED audioVars]_vars
    /\ [](\A g \in DOMAIN graphs : AtMostOnceEach(graphs[g]))
    /\ [][(TrackRequested /\ audioTrackManager = Uninitialized) =>
            /\ Len(graphs') = Len(graphs) + 1
            /\ audioTrackManager'.silentTrack = Len(graphs')
            /\ Live(graphs', Len(graphs'))]_vars

\* A teardown was called on a provider that an earlier teardown had already
\* torn down.
C32_Witness ==
    /\ last.op \in {"cleanup", "reset"}
    /\ last.kind = "idle"
    /\ graphs # <<>>
    /\ audioTrackManager = Uninitialized

\* C33: a track request that finds the source track set and live builds
\* nothing and returns a clone of that source track; a graph is built only
\* when no source track is set or live, so without a teardown all requests
\* share the one graph the first of them built.
C33_SingleGraph ==
    /\ [][(TrackRequested /\ audioTrackManager.silentTrack # 0
                          /\ Live(graphs, audioTrackManager.silentTrack)) =>
            /\ graphs' = graphs
            /\ audioTrackManager' = audioTrackManager
            /\ clones' = Append(clones, audioTrackManager.silentTrack)]_vars
    /\ [][TrackRequested => Len(graphs') <= Len(graphs) + 1]_vars
    /\ []((\A g \in DOMAIN graphs : Live(graphs, g)) =>
            /\ Len(graphs) <= 1
            /\ (clones # <<>> => Len(graphs) = 1)
            /\ \A i \in DOMAIN clones : clones[i] = 1)

\* Several tracks have been requested, nothing was torn down, and one graph
\* exists; the latest request returned a clone.
C33_Witness ==
    /\ last = [op |-> "request", kind |-> "clone"]
    /\ Len(clones) >= 3
    /\ Len(graphs) = 1
    /\ Live(graphs, 1)

\* ----------------------------------------------------------- gesture claims
\* C34: the gesture flag is false whenever no pointer is down on the canvas.
C34_FlagOnlyWhilePointerDown == ~pointerDown => ~isDrawing

\* C35: while the component is mounted, fading is enabled and a brush
\* gesture is active, a fade recurrence is scheduled.
C35_FadeScheduledWhileBoth ==
    (mounted /\ fadingEnabled /\ isDrawing /\ selectedTool = "brush")
        => (fadeAnimation # 0 /\ fadeAnimation \in rafs)

\* --------------------------------------------------- undo and setup claims
SeveralUndosPending ==
    /\ BagCardinality(loads) >= 2
    /\ \A img \in BagToSet(loads) : img.kind = "undo"
BufferAtCursor == HasEntry /\ canvas = DrawImage(EntryAtCursor)

\* C36: when several undo decodes are pending together, a state follows in
\* which no decode is pending and the buffer equals the History Log entry at
\* the cursor.
C36_ConcurrentUndosConverge ==
    SeveralUndosPending ~> (loads = EmptyBag /\ BufferAtCursor)

\* The onload of a restore started by setupCanvas runs and leaves no decode
\* pending.
RestoreCompletes == isRestoring /\ ~isRestoring' /\ loads' = EmptyBag

\* C37: when the restore of a setup re-run completes, the buffer equals the
\* History Log entry at the cursor.
C37_SetupPreservesDrawing ==
    [][(RestoreCompletes /\ HasEntry') => canvas' = DrawImage(EntryAtCursor')]_vars

\* C38: a set restoring guard is eventually cleared, and with the guard
\* clear the snapshot of a completed edit is recorded: the entry at the
\* cursor is then the buffer as the edit left it.
C38_GuardEventuallyCleared ==
    /\ isRestoring ~> ~isRestoring
    /\ [][(last'.op \in EditOps /\ last' # last /\ mounted /\ ~isRestoring)
            => (HasEntry' /\ EntryAtCursor' = ToDataURL(canvas')
                /\ last'.kind # "suppressed")]_vars

\* After a setup re-run that started a restore (no second initial snapshot
\* was armed), the guard is clear again and a gesture has been recorded.
C38_Witness ==
    /\ boot.waitStable = 2
    /\ snapshotTimers = 0
    /\ ~isRestoring
    /\ loads = EmptyBag
    /\ last.op = "stopDrawing"
    /\ last.kind # "suppressed"
    /\ EntryAtCursor = ToDataURL(canvas)

\* C39: a pointer-up or pointer-leave that finds no gesture active leaves
\* the History Log and its cursor as they are and calls no onDrawingEnd;
\* onDrawingEnd calls never outnumber onDrawingStart calls.
C39_GestureEndsOnce ==
    /\ [][last'.op = "stopDrawingIdle"
            => (LogUnchanged /\ unendedStarts' = unendedStarts
                /\ canUndo' = canUndo)]_vars
    /\ [](unendedStarts >= 0)

\* A pointer-leave arrived after the pointer-up that ended the one gesture
\* so far.
C39_Witness ==
    /\ last.op = "stopDrawingIdle"
    /\ ~isDrawing
    /\ unendedStarts = 0
    /\ ops = 1
    /\ Len(history) = 1

\* ------------------------------------------------------------ cursor claim
UndoStep == last' # last /\ (last'.op = "undo" \/ last' = NoCtx("undo"))

\* C40: the cursor is between -1 and the last index of the History Log and
\* is -1 exactly when the log is empty; an undo that moves the cursor leaves
\* it on an entry of the log, which is the entry it reads.
C40_CursorInRange ==
    /\ [](/\ -1 <= historyIndex
          /\ historyIndex <= Len(history) - 1
          /\ (historyIndex = -1 <=> history = <<>>))
    /\ [][(UndoStep /\ historyIndex' # historyIndex)
            => (historyIndex' + 1 \in DOMAIN history)]_vars

\* With maxHistorySize = 0 a snapshot was taken and evicted at once: the log
\* is empty and the cursor is -1.
C40_Witness ==
    /\ maxHistorySize = 0
    /\ last.op \in SnapshotOps
    /\ last.kind = "evict"
    /\ history = <<>>
    /\ historyIndex = -1

====
